---- MODULE Spec2Model ----
(***************************************************************************)
(* A model of the any-auth request pipeline: the Value Resolver            *)
(* (getAllParams), the Request Executor (waitAndRetryRequest), the         *)
(* Pipeline Runner of the custom-provider flow on the client               *)
(* (handleCustomProvidersLoginButtonClick,                                 *)
(* redirectOnCustomProviderButtonClick,                                    *)
(* handleAfterRedirectForCustomProviders) and on the server (getUser,      *)
(* getCustomProviderUserInfo), and the local-storage Redirect Bridge.      *)
(***************************************************************************)
EXTENDS Naturals, Sequences, FiniteSets, TLC

(***************************************************************************)
(* JavaScript values.  A value is a record: t is its kind ("string",       *)
(* "object", "undefined" or "null"), s the text of a string, o the own     *)
(* properties of an object (a function from property names to values).     *)
(***************************************************************************)
NoProps == [p \in {} |-> p]

Str(s) == [t |-> "string", s |-> s, o |-> NoProps]

Obj(f) == [t |-> "object", s |-> "", o |-> f]

Undef == [t |-> "undefined", s |-> "", o |-> NoProps]

Null == [t |-> "null", s |-> "", o |-> NoProps]

EmptyObj == Obj(NoProps)

\* The truthiness of a value: `if (v)`.
Truthy(n) == n.t = "object" \/ (n.t = "string" /\ n.s # "")

\* `typeof v === "object"`: true of objects and of null.
TypeofObject(n) == n.t \in {"object", "null"}

\* Whether the property access v[key] throws a TypeError.
AccessThrows(n) == n.t \in {"undefined", "null"}

\* The property access v[key] on a value that is neither undefined nor null.
Get(n, key) ==
    IF n.t = "object" /\ key \in DOMAIN n.o THEN n.o[key] ELSE Undef

\* The object spread {...a, ...b} and {...a, [key]: v}.
Spread(a, b) == Obj(b.o @@ a.o)

Put(a, key, v) == Obj((key :> v) @@ a.o)

(***************************************************************************)
(* throwError (src/unnamed/part_002:135): the handler is called with the   *)
(* error and then, useThrow being left at its default, the error is        *)
(* thrown.  An operation of the model ends with one of three outcomes:     *)
(* "ok"; "handled", an error that went through throwError (the handler was *)
(* invoked, then the error thrown); "TypeError", an exception the          *)
(* JavaScript runtime raised, which reaches no handler.                    *)
(***************************************************************************)
Outcomes == {"ok", "handled", "TypeError"}

(***************************************************************************)
(* A parameter specification (requestParamsType): a literal string, an     *)
(* array naming a place in the previous fetches, or a resolver function    *)
(* (modelled by the value it returns).                                     *)
(***************************************************************************)
Lit(s) == [kind |-> "string", str |-> s, path |-> <<>>, ret |-> Undef]

Ref(p) == [kind |-> "array", str |-> "", path |-> p, ret |-> Undef]

Fn(v) == [kind |-> "function", str |-> "", path |-> <<>>, ret |-> v]

\* for (const v of value) { try { reqProperty = reqProperty[v] } catch ... }
RECURSIVE Walk(_, _)
Walk(node, path) ==
    IF path = <<>> THEN [thrown |-> FALSE, node |-> node]
    ELSE IF AccessThrows(node) THEN [thrown |-> TRUE, node |-> node]
    ELSE Walk(Get(node, Head(path)), Tail(path))

\* The segments getAllParams walks for an array value: `for (const v of
\* value)` goes through the whole array, its first two segments included.
WalkedSegments(value) == value

\* The array branch of getAllParams for one key: [outcome, node].
ResolveArray(value, previousFetchData, specificParser) ==
    LET hasParser == Truthy(specificParser)
        entry == IF Len(value) >= 1 THEN Get(previousFetchData, value[1])
                 ELSE Undef
        half  == IF Len(value) >= 2 THEN value[2] ELSE "undefined"
        fail(o) == [outcome |-> o, node |-> Undef]
    IN
    IF Len(value) < 2 /\ ~hasParser THEN fail("handled")
    ELSE IF ~hasParser /\ half \in {"request", "response"}
            /\ AccessThrows(entry) THEN fail("TypeError")
    ELSE
        LET reqProperty == IF hasParser THEN specificParser
                           ELSE IF half \in {"request", "response"}
                                THEN Get(entry, half)
                                ELSE Null
        IN
        IF ~Truthy(reqProperty) THEN fail("handled")
        ELSE
            LET w == Walk(reqProperty, WalkedSegments(value)) IN
            IF w.thrown THEN fail("handled")
            ELSE IF Truthy(w.node) THEN [outcome |-> "ok", node |-> w.node]
            \* the message of "Invalid key Found" reads
            \* previousFetchData[value[0]][value[1]] before throwError runs
            ELSE IF AccessThrows(entry) THEN fail("TypeError")
            ELSE fail("handled")

\* One key of the for-in loop of getAllParams: [outcome, node].
ResolveOne(spec, previousFetchData, specificParser) ==
    CASE spec.kind = "string" -> [outcome |-> "ok", node |-> Str(spec.str)]
      [] spec.kind = "array" ->
            ResolveArray(spec.path, previousFetchData, specificParser)
      [] spec.kind = "function" ->
            IF Truthy(spec.ret) THEN [outcome |-> "ok", node |-> spec.ret]
            ELSE [outcome |-> "handled", node |-> Undef]

\* A map returned as it was resolved, structured values included.
KeepNestedObjects(obj) == obj

\* removeNestedObjects: keeps the keys whose value is not typeof "object".
removeNestedObjects(obj) ==
    Obj([key \in {q \in DOMAIN obj.o : ~TypeofObject(obj.o[q])} |-> obj.o[key]])

\* The loop of getAllParams from key i on, finalUrlParams being the map so far.
RECURSIVE ResolveFrom(_, _, _, _, _)
ResolveFrom(params, i, finalUrlParams, previousFetchData, specificParser) ==
    IF i > Len(params)
    THEN [outcome |-> "ok", value |-> removeNestedObjects(finalUrlParams)]
    ELSE
        LET r == ResolveOne(params[i][2], previousFetchData, specificParser) IN
        IF r.outcome # "ok" THEN [outcome |-> r.outcome, value |-> EmptyObj]
        ELSE ResolveFrom(params, i + 1, Put(finalUrlParams, params[i][1], r.node),
                         previousFetchData, specificParser)

\* getAllParams: params is the sequence of <<key, specification>> in
\* declaration order; the result is [outcome, value].
getAllParams(params, previousFetchData, specificParser) ==
    ResolveFrom(params, 1, EmptyObj, previousFetchData, specificParser)

(***************************************************************************)
(* Bounds of the model.                                                    *)
(***************************************************************************)
\* The longest reference path the resolver is applied to.
MaxPath == 3

\* The largest maxRetries waitAndRetryRequest is called with directly.
MaxRetriesBound == 3

(***************************************************************************)
(* State.                                                                  *)
(***************************************************************************)
VARIABLES
    gap,            \* one call of getAllParams, of storeValuesToReturn, of
                    \* convertToUrlParams, of a signer function or of
                    \* getUser for a native provider: its arguments, its
                    \* requests and its result
    ex,             \* the waitAndRetryRequest call of each runtime
    run,            \* the pipeline runner of each runtime: its globals, its
                    \* place in the loop over reqUrls
    bodyParams,     \* the body of the request the browser sends to getUser
    localStorage,   \* the browser's local storage
    persisted,      \* the objects redirectOnCustomProviderButtonClick
                    \* serialised into local storage (history)
    page,           \* where the browser is, and how often the page resumed
    flow            \* the login clicks and the return through
                    \* handleOAuthRedirect: configuration, url, outcome

vars == <<gap, ex, run, bodyParams, localStorage, persisted, page, flow>>

\* What the Request Executor leaves alone.
execFrame == <<gap, run, bodyParams, localStorage, persisted, page, flow>>

Instances == {"client", "server"}

(***************************************************************************)
(* The Request Executor, waitAndRetryRequest.                              *)
(***************************************************************************)
\* maxRetries when the step's retry policy gives none (initParams).
DefaultMaxRetries == 2

\* The payload returned when the loop ends: {error: "Max Retries Reached"}.
MaxRetriesReached == Obj("error" :> Str("Max Retries Reached"))

\* What one attempt can meet: a response with a status and a parsed body, or
\* an abort (the timeout fired, or the network failed: fetch throws).
Bodies ==
    {Obj("token" :> Str("T")),
     Obj("token" :> Str("T") @@ "user" :> Obj("id" :> Str("u7"))),
     EmptyObj}

AttemptOutcomes ==
    {[kind |-> "response", status |-> 200, body |-> b] : b \in Bodies}
    \cup {[kind |-> "response", status |-> st, body |-> Undef] : st \in {500, 503}}
    \cup {[kind |-> "abort", status |-> 0, body |-> Undef]}

\* The retry predicates a caller passes: one that always retries, one that
\* never does, and the default of initParams, [429, 503].includes(statusCode).
RetryPolicies == {"always", "never", "default"}

retryOn(policy, statusCode) ==
    CASE policy = "always" -> TRUE
      [] policy = "never" -> FALSE
      [] policy = "default" -> statusCode \in {429, 503}

\* The most validators a step has (response.validate).
MaxValidators == 2

\* What the validators of a step return for one attempt, in declared order;
\* a validator is a caller's function and may return either value.
Verdicts(n) == [1..n -> BOOLEAN]

\* What the proxy answers with HTTP 200: {status: "success", data}, the same
\* without data, {status: "error", data}, an object without status, JSON
\* null, and a JSON text that is a string.
ProxyReplies ==
    {Obj("status" :> Str("success") @@ "data" :> Obj("token" :> Str("T"))),
     Obj("status" :> Str("success")),
     Obj("status" :> Str("error") @@ "data" :> Str("failed")),
     Obj("data" :> Obj("token" :> Str("T"))),
     Null,
     Str("failed")}

\* What the provider answers to the fetch of useProxy: a status and a body
\* that is JSON (json TRUE) or not, or no answer at all (status 0).
ProviderBehindProxy ==
    {[status |-> 200, json |-> TRUE, body |-> Obj("token" :> Str("T"))],
     [status |-> 401, json |-> TRUE,
      body |-> Obj("error" :> Str("invalid_client"))],
     [status |-> 500, json |-> FALSE, body |-> Undef],
     [status |-> 0, json |-> FALSE, body |-> Undef]}

\* useProxy with parseResponseType "json": fetch(url).then(data =>
\* data.json()).then(data => ({status: "success", data})), and
\* {status: "error", data: error} when fetch or json() rejects; response.ok
\* and response.status are not looked at.
useProxy(p) ==
    IF p.status = 0 \/ ~p.json
    THEN Obj("status" :> Str("error") @@ "data" :> EmptyObj)
    ELSE Obj("status" :> Str("success") @@ "data" :> p.body)

\* What one attempt through the proxy can meet: behind is the status the
\* provider gave to useProxy (0: no answer); made is FALSE when the
\* endpoint's reply is not made by useProxy.
ProxyOutcomes ==
    {[kind |-> "response", status |-> 200, body |-> b,
      made |-> FALSE, behind |-> 0] : b \in ProxyReplies}
    \cup {[kind |-> "response", status |-> 200, body |-> useProxy(p),
           made |-> TRUE, behind |-> p.status] : p \in ProviderBehindProxy}
    \cup {[kind |-> "response", status |-> 503, body |-> Undef,
           made |-> FALSE, behind |-> 0],
          [kind |-> "abort", status |-> 0, body |-> Undef,
           made |-> FALSE, behind |-> 0]}

ExecIdle ==
    [pc |-> "idle", maxRetries |-> 0, policy |-> "default", target |-> "none",
     validators |-> 0, proxy |-> FALSE,
     retries |-> 0, lastRequestStatusCode |-> 0, attempts |-> 0,
     onRetryCalls |-> 0, delaysAwaited |-> 0, errorHandlerCalls |-> 0,
     log |-> <<>>, verdicts |-> <<>>, invoked |-> <<>>, events |-> <<>>,
     result |-> Undef]

\* The state of a call at its first line: retries = 0, no status seen yet.
ExecCall(maxRetries, policy, target) ==
    [ExecIdle EXCEPT !.pc = "loop", !.maxRetries = maxRetries,
                     !.policy = policy, !.target = target]

\* A loop that makes one attempt too many.
LoopConditionInclusive(e) == e.retries <= e.maxRetries

\* The loop condition of waitAndRetryRequest: while (retries < maxRetries).
LoopCondition(e) == e.retries < e.maxRetries

\* while (retries < maxRetries) { ... observability.onRequestStart(...) ...
\* await fetch(...): the hook is called and the attempt is sent.
ExecSend(i) ==
    /\ ex[i].pc = "loop"
    /\ LoopCondition(ex[i])
    /\ ex' = [ex EXCEPT ![i].pc = "fetching", ![i].attempts = @ + 1,
                        ![i].events = @ \o <<"onRequestStart", "request">>]
    /\ UNCHANGED execFrame

\* A catch block that never consults the retry predicate.
CatchBlockAlwaysRetries(e, handled) ==
    [e EXCEPT !.retries = @ + 1, !.errorHandlerCalls = @ + handled,
              !.events = Append(@, "failed"),
              !.pc = "waiting", !.onRetryCalls = @ + 1]

\* The catch block up to its await: retries++, the retry predicate, then
\* either throwError (fatal) or the on-retry hook and the backoff delay.
CatchBlock(e, handled) ==
    LET f == [e EXCEPT !.retries = @ + 1,
                       !.errorHandlerCalls = @ + handled,
                       !.events = Append(@, "failed")]
    IN
    IF retryOn(f.policy, f.lastRequestStatusCode)
    THEN [f EXCEPT !.pc = "waiting", !.onRetryCalls = @ + 1]
    ELSE [f EXCEPT !.pc = "thrown", !.errorHandlerCalls = @ + 1]

\* Validators that are all invoked, whatever they return.
RECURSIVE InvokeAllValidators(_, _)
InvokeAllValidators(verdicts, index) ==
    IF index > Len(verdicts) THEN <<>>
    ELSE <<index>> \o InvokeAllValidators(verdicts, index + 1)

\* for (const value of validateResponse): the validators invoked, in order,
\* from the one at index on; the loop is left by throwError at the first
\* that returns false.
RECURSIVE InvokeValidators(_, _)
InvokeValidators(verdicts, index) ==
    IF index > Len(verdicts) THEN <<>>
    ELSE IF ~verdicts[index] THEN <<index>>
    ELSE <<index>> \o InvokeValidators(verdicts, index + 1)

\* if (proxy && typeof parsedProviderResponse === "object"): the reply's data
\* when it has status "success", throwError otherwise; Object.hasOwn(null)
\* throws a TypeError.
UnwrapProxyReply(parsed) ==
    IF parsed.t = "null" THEN [outcome |-> "thrown", value |-> Undef]
    ELSE IF Get(parsed, "status") = Str("success")
    THEN [outcome |-> "ok", value |-> Get(parsed, "data")]
    ELSE [outcome |-> "handled", value |-> Undef]

\* The attempt's fetch settles with outcome o and the validators, if they
\* are reached, return verdicts: the try block after the await.
ExecSettle(e, o, verdicts) ==
    LET logged == [e EXCEPT !.log = Append(@, o), !.verdicts = <<>>,
                            !.invoked = <<>>]
    IN
    IF o.kind = "abort" THEN CatchBlock(logged, 0)
    ELSE
        LET seen == [logged EXCEPT !.lastRequestStatusCode = o.status]
            unwrapped == IF e.proxy /\ TypeofObject(o.body)
                         THEN UnwrapProxyReply(o.body)
                         ELSE [outcome |-> "ok", value |-> o.body]
            invoked == InvokeValidators(verdicts, 1)
            validated == [seen EXCEPT !.verdicts = verdicts,
                                      !.invoked = invoked]
        IN
        \* !providerResponse.ok: throwError inside the try, caught below
        IF o.status \notin 200..299 THEN CatchBlock(seen, 1)
        ELSE IF unwrapped.outcome = "thrown" THEN CatchBlock(seen, 0)
        ELSE IF unwrapped.outcome = "handled" THEN CatchBlock(seen, 1)
        ELSE IF \E n \in 1..Len(verdicts) : ~verdicts[n]
        THEN CatchBlock(validated, 1)
        ELSE [validated EXCEPT !.pc = "returned",
                               !.events = Append(@, "validated"),
                               !.result = unwrapped.value]

ProviderResponds(i) ==
    /\ ex[i].pc = "fetching"
    /\ ex[i].target = "provider"
    /\ \E o \in (IF ex[i].proxy THEN ProxyOutcomes ELSE AttemptOutcomes),
          verdicts \in Verdicts(ex[i].validators) :
         ex' = [ex EXCEPT ![i] = ExecSettle(@, o, verdicts)]
    /\ UNCHANGED execFrame

\* await new Promise((resolve) => setTimeout(resolve, currentTimeDelay))
ExecDelay(i) ==
    /\ ex[i].pc = "waiting"
    /\ ex' = [ex EXCEPT ![i].pc = "loop", ![i].delaysAwaited = @ + 1]
    /\ UNCHANGED execFrame

\* The loop ends: return {error: "Max Retries Reached"}.
ExecExhausted(i) ==
    /\ ex[i].pc = "loop"
    /\ ~LoopCondition(ex[i])
    /\ ex' = [ex EXCEPT ![i].pc = "returned", ![i].result = MaxRetriesReached]
    /\ UNCHANGED execFrame

(***************************************************************************)
(* Step descriptors and stages (urls.beforeRedirect, urls.afterRedirect).  *)
(***************************************************************************)
\* The most steps a stage has.
MaxSteps == 3

\* The url keys of a stage, in declaration order; the keys of an object are
\* pairwise distinct.
StepUrl(k) == "step" \o ToString(k)

\* A one-character string outside Latin-1, which btoa rejects.
NonLatin1 == {"U+540D"}

\* The header specification {Authorization: ["step1", "response", "token"]}.
TokenHeader == << <<"Authorization", Ref(<<"step1", "response", "token">>)>> >>

\* One entry of response.toReturn: key: [..path] or key: "all".
Path(key, path) == [key |-> key, all |-> FALSE, path |-> path]

All(key) == [key |-> key, all |-> TRUE, path |-> <<>>]

ToReturnSpecs ==
    { <<Path("out", <<"token">>)>>,
      <<All("out")>>,
      <<Path("U+540D", <<"token">>)>>,
      <<Path("name", <<"user", "id">>)>> }

\* The explicit names (details.name) a step may be given; Undef is none.
NameChoices(k) == IF k = 1 THEN {Undef, Str("first")} ELSE {Undef, Str("step1")}

NameVectors(n) == {nm \in [1..n -> {Undef, Str("first"), Str("step1")}] :
                     \A k \in 1..n : nm[k] \in NameChoices(k)}

\* Which of request.onError and response.onError a step configures.
StepHandlers == [request : BOOLEAN, response : BOOLEAN]

NoStepHandlers == [request |-> FALSE, response |-> FALSE]

\* The stages: 1..MaxSteps steps, any explicit names, the token header on
\* every step after the first or on none, one toReturn map for all steps,
\* no retry policy, error handler or validator given, the test flag on the
\* last step or on none.
Stages ==
    UNION {
      { [k \in 1..n |->
           [url |-> StepUrl(k), name |-> nm[k],
            headers |-> IF withRef /\ k >= 2 THEN TokenHeader ELSE <<>>,
            toReturn |-> tr, maxRetries |-> 0, retriesGiven |-> FALSE,
            policy |-> "default",
            handlers |-> NoStepHandlers, validators |-> 0,
            test |-> test /\ k = n]] :
          nm \in NameVectors(n), withRef \in BOOLEAN, tr \in ToReturnSpecs,
          test \in BOOLEAN }
      : n \in 1..MaxSteps }

\* const name = details.name ?? url
StepName(details) ==
    IF AccessThrows(details.name) THEN details.url ELSE details.name.s

\* The fresh currentFetchData of initParams.
NewFetchData ==
    Obj("request" :> Obj("method" :> Str("") @@ "url" :> Str("")
                         @@ "urlParams" :> EmptyObj @@ "headers" :> EmptyObj
                         @@ "body" :> EmptyObj)
        @@ "response" :> EmptyObj)

\* A bound taken from the retry policy as it is, given or not.
maxRetriesGiven(details) == details.maxRetries

\* const maxRetries = retriesObject && retriesObject.maxRetries
\*                       ? retriesObject.maxRetries : 2
\* (an absent maxRetries is 0 in a descriptor of the model, with
\* retriesGiven FALSE; a configured one has retriesGiven TRUE).
maxRetriesOf(details) ==
    IF details.maxRetries # 0 THEN details.maxRetries ELSE DefaultMaxRetries

\* const onError = request.onError ?? observingFuncs.onError, where
\* observingFuncs = {onError: globalErrorHandler, ...observability}.
onErrorOf(details, observability) ==
    IF details.handlers.request THEN "request.onError"
    ELSE IF observability THEN "observability.onError"
    ELSE "globalErrorHandler"

\* const onErrorInResponse = response.onError ?? onError
onErrorInResponseOf(details, observability) ==
    IF details.handlers.response THEN "response.onError"
    ELSE onErrorOf(details, observability)

\* initParams: the step's name and retry settings, and its urlParams,
\* headers and body resolved by getAllParams in this order (urlParams and
\* body are empty maps in every stage of the model).
initParams(details, previousFetchData, specificParser) ==
    LET urlParams == getAllParams(<<>>, previousFetchData, specificParser)
        headers   == getAllParams(details.headers, previousFetchData,
                                  specificParser)
        bodyParams0 == getAllParams(<<>>, previousFetchData, specificParser)
    IN [outcome |-> IF urlParams.outcome # "ok" THEN urlParams.outcome
                    ELSE IF headers.outcome # "ok" THEN headers.outcome
                    ELSE bodyParams0.outcome,
        name |-> StepName(details),
        maxRetries |-> maxRetriesOf(details),
        policy |-> details.policy,
        urlParams |-> urlParams.value,
        headers |-> headers.value,
        bodyParams |-> bodyParams0.value]

\* params.currentFetchData.request = {method, url, urlParams, headers, body}
RequestOf(details, params) ==
    Obj("method" :> Str("GET") @@ "url" :> Str(details.url)
        @@ "urlParams" :> params.urlParams @@ "headers" :> params.headers
        @@ "body" :> params.bodyParams)

\* A projection that follows the first segment of the path only.
ProjectFirstSegment(node, path) ==
    IF path = <<>> THEN [outcome |-> "ok", node |-> node]
    ELSE IF node.t # "object" THEN [outcome |-> "handled", node |-> Undef]
    ELSE [outcome |-> "ok", node |-> Get(node, Head(path))]

\* One toReturn entry of storeValuesToReturn: the walk stops with throwError
\* at a string, an undefined or (through the catch) a null node.
RECURSIVE ProjectPath(_, _)
ProjectPath(node, path) ==
    IF path = <<>> THEN [outcome |-> "ok", node |-> node]
    ELSE IF node.t # "object" THEN [outcome |-> "handled", node |-> Undef]
    ELSE ProjectPath(Get(node, Head(path)), Tail(path))

RECURSIVE ProjectFrom(_, _, _, _)
ProjectFrom(returnAfterResponse, i, toReturnObject, providerResponse) ==
    IF i > Len(returnAfterResponse)
    THEN [outcome |-> "ok", value |-> toReturnObject]
    ELSE
        LET entry == returnAfterResponse[i]
            r == IF entry.all
                 THEN [outcome |-> "ok", node |-> providerResponse]
                 ELSE ProjectPath(providerResponse, entry.path)
        IN
        IF r.outcome # "ok" THEN [outcome |-> r.outcome, value |-> EmptyObj]
        ELSE ProjectFrom(returnAfterResponse, i + 1,
                         Put(toReturnObject, entry.key, r.node),
                         providerResponse)

\* A projection that extracts nothing.
storeNothing(returnAfterResponse, providerResponse) ==
    [outcome |-> "ok", value |-> EmptyObj]

\* storeValuesToReturn: [outcome, value].
storeValuesToReturn(returnAfterResponse, providerResponse) ==
    ProjectFrom(returnAfterResponse, 1, EmptyObj, providerResponse)

\* A ledger that forgets the new record.
AppendNothing(previousFetchData, name, currentFetchData) == previousFetchData

\* A ledger that keeps the newest record only.
AppendReplacing(previousFetchData, name, currentFetchData) ==
    Obj(name :> currentFetchData)

\* previousFetchData = {...previousFetchData, [params.name]: currentFetchData}
AppendToLedger(previousFetchData, name, currentFetchData) ==
    Put(previousFetchData, name, currentFetchData)

(***************************************************************************)
(* The Redirect Bridge: JSON, base64 and local storage.                    *)
(***************************************************************************)
storeFetchesAs == "fetch data before redirect: "

storeToReturnAs == "values to return: "

StorageKeys == {storeFetchesAs, storeToReturnAs}

\* What of a value JSON can express: the properties whose value is undefined
\* are left out.
RECURSIVE JsonValue(_)
JsonValue(n) ==
    IF n.t = "object"
    THEN Obj([key \in {q \in DOMAIN n.o : n.o[q].t # "undefined"} |->
                JsonValue(n.o[key])])
    ELSE n

\* JSON.stringify: a text, identified by the value it denotes.
JsonStringify(n) == [json |-> JsonValue(n)]

\* A text that is no JSON text: the characters s as they are.
RawText(s) == [json |-> [t |-> "notjson", s |-> s, o |-> NoProps]]

\* Whether JSON.parse throws on a text.
JsonParseThrows(text) == text.json.t = "notjson"

\* A parser that loses the text's content.
JsonParseEmpty(text) == EmptyObj

\* JSON.parse of a JSON text.
JsonParse(text) == text.json

\* Whether a character outside Latin-1 occurs in a value's keys or strings.
RECURSIVE WideIn(_)
WideIn(n) ==
    \/ n.t = "string" /\ n.s \in NonLatin1
    \/ n.t = "object"
         /\ \E key \in DOMAIN n.o : key \in NonLatin1 \/ WideIn(n.o[key])

\* Whether a JSON text holds a character outside Latin-1.
HasNonLatin1(text) == WideIn(text.json)

\* A local-storage item: none, or the base64 text btoa made of a JSON text.
NoItem == [present |-> FALSE, base64Of |-> Undef]

\* encodeToBase64 (btoa) of a text without characters outside Latin-1.
encodeToBase64(text) == [present |-> TRUE, base64Of |-> text]

\* decodeFromBase64 (atob).
decodeFromBase64(item) == item.base64Of

\* The key of the caller's state entry.
StateKey == "state"

EmptyStorage == [key \in StorageKeys \cup {StateKey} |-> NoItem]

NothingPersisted ==
    [done |-> FALSE, previousFetchData |-> EmptyObj, toReturnObject |-> EmptyObj]

(***************************************************************************)
(* The runners.                                                            *)
(***************************************************************************)
RunIdle ==
    [pc |-> "idle", reqUrls |-> <<>>, index |-> 0,
     previousFetchData |-> EmptyObj, toReturnObject |-> EmptyObj,
     currentFetchData |-> NewFetchData, specificParser |-> Undef,
     read |-> {}, error |-> "ok", returned |-> Undef,
     requests |-> 0, state |-> Undef, givenParams |-> Undef,
     observability |-> FALSE, events |-> <<>>, hookLedger |-> EmptyObj,
     side |-> "none", handlerCalls |-> <<>>]

NoBody == Undef

\* The browser: on the application's page or the provider's, how many times
\* the redirect page ran handleAfterRedirectForCustomProviders, and how many
\* of these runs got the ledger entry from local storage.
\* No redirect form is in the document.
NoForm == [appended |-> FALSE, action |-> "", submitted |-> FALSE]

PageStart == [at |-> "app", resumes |-> 0, ledgerReads |-> 0, form |-> NoForm]

(***************************************************************************)
(* SpecExec: waitAndRetryRequest called directly, with every max-retries   *)
(* bound up to MaxRetriesBound and every retry predicate.                  *)
(***************************************************************************)
GapIdle ==
    [pc |-> "idle", params |-> <<>>, previousFetchData |-> EmptyObj,
     specificParser |-> Undef, outcome |-> "ok", value |-> EmptyObj]

(***************************************************************************)
(* Login clicks and handleOAuthRedirect: providers, urls, the state text.  *)
(***************************************************************************)
\* The name of the custom provider.
Provider == "custom"

\* The providers map of the configuration, with each provider's flowType.
NativeProviders == {"google", "salesforce", "twitter"}

flowType(provider) == IF provider = "twitter" THEN "1.0" ELSE "2.0"

\* The names a login button can be clicked with.
ClickNames == NativeProviders \cup {Provider, "Google", "unknown"}

\* provider.toLowerCase()
toLowerCase(name) == IF name = "Google" THEN "google" ELSE name

\* The required fields of a provider's configuration.
RequiredFields == {"clientId", "clientSecret", "redirectUri", "scope"}

\* The configurations: the global error handler merely logs or is absent,
\* the providers have a state or none, and all their required fields or all
\* but one.
Configs ==
    [handler : {"logs", "none"},
     state : {Undef, Str("u1")},
     missing : RequiredFields \cup {"nothing"}]

\* A throwError that leaves it to the handler whether execution goes on.
throwErrorUnlessHandled(handler) ==
    [handled |-> handler # "none", thrown |-> handler = "none"]

\* throwError(message, handler): with a handler, the handler is called and
\* the error is thrown (useThrow is true); without one, an error is thrown.
throwError(handler) == [handled |-> handler # "none", thrown |-> TRUE]

\* The first check of handleExistingProvidersLoginButtonClick that fails
\* for a provider, or "nothing".
FailedCheck(config, provider) ==
    IF config.missing = "scope" /\ provider = "salesforce" THEN "nothing"
    ELSE config.missing

\* encodeURIComponent of a text, and the value a GET form puts in the url.
encodeURIComponent(text) == [uri |-> text]

decodeURIComponent(encoded) == encoded.uri

FormEncode(value) == [form |-> value]

\* URLSearchParams.get of a parameter the url carries.
UrlGet(param) == param.form

\* A url without the parameter.
NoParam == [form |-> [uri |-> RawText("")]]

\* let state = {auth: provider}; if (configProvider.state)
\* state.userState = configProvider.state
ProviderState(provider, config) ==
    IF Truthy(config.state)
    THEN Obj("auth" :> Str(provider) @@ "userState" :> config.state)
    ELSE Obj("auth" :> Str(provider))

\* redirectUser: state: encodeURIComponent(JSON.stringify(state)), as the
\* submitted form carries it.
SentState(provider, config) ==
    FormEncode(encodeURIComponent(JsonStringify(ProviderState(provider,
                                                              config))))

\* handleOAuth1ButtonClick: JSON.stringify({auth: provider, userState:
\* configProvider.state}), base64 encoded.
OAuth1StateItem(provider, config) ==
    encodeToBase64(JsonStringify(
        Obj("auth" :> Str(provider) @@ "userState" :> config.state)))

NoClick ==
    [provider |-> "", outcome |-> "none", handled |-> FALSE,
     redirected |-> FALSE, tokenCalled |-> FALSE]

FlowIdle ==
    [config |-> [handler |-> "none", state |-> Undef, missing |-> "nothing"],
     pc |-> "app", clicks |-> 0, click |-> NoClick,
     url |-> NoParam, echoed |-> FALSE,
     readFrom |-> "none", outcome |-> "none",
     provider |-> "", userState |-> Undef,
     exchange |-> "none", result |-> Undef]

IdleRest ==
    /\ flow = FlowIdle
    /\ run = [i \in Instances |-> RunIdle]
    /\ bodyParams = NoBody
    /\ localStorage = EmptyStorage
    /\ persisted = NothingPersisted
    /\ page = PageStart

InitExec ==
    /\ gap = GapIdle
    /\ IdleRest
    /\ \E m \in 0..MaxRetriesBound, p \in RetryPolicies,
          n \in 0..MaxValidators, proxy \in BOOLEAN :
          ex = [i \in Instances |->
                  IF i = "client"
                  THEN [ExecCall(m, p, "provider") EXCEPT !.validators = n,
                                                          !.proxy = proxy]
                  ELSE ExecIdle]

NextExec ==
    \/ ExecSend("client")
    \/ ProviderResponds("client")
    \/ ExecDelay("client")
    \/ ExecExhausted("client")

SpecExec == InitExec /\ [][NextExec]_vars

(***************************************************************************)
(* SpecParams: getAllParams applied to bounded parameter maps, ledgers and *)
(* override maps.                                                          *)
(***************************************************************************)
Segments == {"step1", "step2", "request", "response", "field"}

RECURSIVE PathsUpTo(_)
PathsUpTo(n) ==
    IF n = 0 THEN {<<>>}
    ELSE LET shorter == PathsUpTo(n - 1) IN
         shorter \cup {Append(q, g) : q \in shorter, g \in Segments}

\* A Fetch Record: {request: {...}, response: <parsed body>}.
FetchRecord(request, response) ==
    Obj("request" :> request @@ "response" :> response)

SampleRequest == Obj("field" :> Str("r"))

SampleResponses ==
    {Obj("field" :> Str("v")),
     Obj("step1" :> Obj("response" :> Obj("field" :> Str("w")))),
     Obj("field" :> Obj("field" :> Str("x"))),
     Str("text"), Str(""), EmptyObj}

\* Ledgers: empty, or holding the record of step1 (never of step2).
SampleLedgers ==
    {EmptyObj}
    \cup {Obj("step1" :> FetchRecord(SampleRequest, r)) : r \in SampleResponses}

\* Override maps (specificParser); Undef is the argument left out.
SampleParsers ==
    {Undef, EmptyObj, Obj("field" :> Str("p")),
     Obj("step1" :> Obj("response" :> Str("q")))}

SimpleSpecs == {Lit("a"), Fn(Str("f"))}

ParamSpecs ==
    {Ref(q) : q \in PathsUpTo(MaxPath)}
    \cup {Lit("a"), Lit(""), Fn(Str("f")), Fn(Undef), Fn(EmptyObj)}

ParamLists ==
    {<< <<"k1", a>> >> : a \in ParamSpecs}
    \cup {<< <<"k1", a>>, <<"k2", b>> >> : a \in SimpleSpecs, b \in ParamSpecs}

InitParams ==
    /\ ex = [i \in Instances |-> ExecIdle]
    /\ IdleRest
    /\ \E ps \in ParamLists, l \in SampleLedgers, sp \in SampleParsers :
          gap = [GapIdle EXCEPT !.pc = "called", !.params = ps,
                                !.previousFetchData = l, !.specificParser = sp]

GetAllParamsCall ==
    /\ gap.pc = "called"
    /\ LET r == getAllParams(gap.params, gap.previousFetchData,
                             gap.specificParser)
       IN gap' = [gap EXCEPT !.pc = "done", !.outcome = r.outcome,
                             !.value = r.value]
    /\ UNCHANGED <<ex, run, bodyParams, localStorage, persisted, page, flow>>

NextParams == GetAllParamsCall

SpecParams == InitParams /\ [][NextParams]_vars

(***************************************************************************)
(* SpecProject: storeValuesToReturn applied to bounded toReturn maps and   *)
(* responses.                                                              *)
(***************************************************************************)
ProjectSegments == {"a", "b"}

RECURSIVE ProjectPathsUpTo(_)
ProjectPathsUpTo(n) ==
    IF n = 0 THEN {<<>>}
    ELSE LET shorter == ProjectPathsUpTo(n - 1) IN
         shorter \cup {Append(q, g) : q \in shorter, g \in ProjectSegments}

\* The parsed responses of a step: objects, nested objects, a null member,
\* and a text (parseType "text").
ProjectResponses ==
    {Obj("a" :> Obj("b" :> Str("x"))),
     Obj("a" :> Obj("b" :> Obj("a" :> Str("z")))),
     Obj("a" :> Str("y") @@ "b" :> Null),
     EmptyObj,
     Str("text")}

\* The values of response.toReturn: one or two keys, each with a path or
\* "all".
ProjectEntries(key) ==
    {All(key)} \cup {Path(key, q) : q \in ProjectPathsUpTo(MaxPath)}

ToReturnMaps ==
    {<<e>> : e \in ProjectEntries("out")}
    \cup {<<e, f>> : e \in ProjectEntries("out"), f \in ProjectEntries("id")}

InitProject ==
    /\ ex = [i \in Instances |-> ExecIdle]
    /\ IdleRest
    /\ \E m \in ToReturnMaps, r \in ProjectResponses :
          gap = [pc |-> "called", returnAfterResponse |-> m,
                 providerResponse |-> r, outcome |-> "ok", value |-> EmptyObj]

StoreValuesToReturnCall ==
    /\ gap.pc = "called"
    /\ LET r == storeValuesToReturn(gap.returnAfterResponse,
                                    gap.providerResponse)
       IN gap' = [gap EXCEPT !.pc = "done", !.outcome = r.outcome,
                             !.value = r.value]
    /\ UNCHANGED <<ex, run, bodyParams, localStorage, persisted, page, flow>>

NextProject == StoreValuesToReturnCall

SpecProject == InitProject /\ [][NextProject]_vars

(***************************************************************************)
(* SpecNative: getUser for a native provider of flowType 2.0, from the     *)
(* body the browser posted to the value it returns: the token exchange     *)
(* (getBodyAccessCode) and the profile request (getUserInfo).              *)
(***************************************************************************)
\* The native providers of flowType 2.0 the call is made for.
OAuth2Providers == {"google", "salesforce"}

\* bodyParams.code: absent, or what the provider's redirect carried.
Codes == {Undef, Str("c1"), Str("c2")}

\* The header maps a provider is configured with for the profile request.
ProfileHeaders ==
    {Obj("Client-Id" :> Str("id1")),
     Obj("Client-Id" :> Str("id1") @@ "Accept" :> Str("application/json"))}

\* config.providers[provider]: extraHeaderParams is the field of
\* supportedProviderType and of the README, extraUrlHeaders the field
\* getUserInfo reads, extraUrlParams.profileUrl a reference into the token
\* response (<<>> when not configured).
HeaderFields == {Undef} \cup {Obj("profileUrl" :> h) : h \in ProfileHeaders}

ProviderConfigs ==
    [extraHeaderParams : HeaderFields,
     extraUrlHeaders : {Undef, Obj("profileUrl" :> Obj("X-Extra" :> Str("e1")))},
     extraUrlParams : {<<>>, <<"authed_user", "id">>}]

\* What the token endpoint's fetch(...).then(data => data.json()) gives: a
\* parsed body, whatever the HTTP status was, or a rejection (no connection,
\* body that is not JSON).
TokenBodies ==
    {Obj("access_token" :> Str("t1")),
     Obj("access_token" :> Str("t2")
         @@ "authed_user" :> Obj("id" :> Str("u7"))),
     Obj("error" :> Str("invalid_grant")),
     Str("denied"),
     Null}

TokenReplies ==
    {[rejected |-> FALSE, data |-> b] : b \in TokenBodies}
    \cup {[rejected |-> TRUE, data |-> Undef]}

\* What the profile endpoint's fetch(...).then(data => data.json()) gives.
ProfileReplies ==
    {[rejected |-> FALSE, data |-> Obj("login" :> Str("ann"))],
     [rejected |-> FALSE, data |-> Obj("message" :> Str("Bad credentials"))],
     [rejected |-> TRUE, data |-> Undef]}

\* A value inside a template literal: `${v}`.
TemplateString(v) ==
    CASE v.t = "string" -> v.s
      [] v.t = "undefined" -> "undefined"
      [] v.t = "null" -> "null"
      [] OTHER -> "[object Object]"

\* The forEach of getPropertyString over one array value: property starts as
\* the token response; a segment property does not own ends in throwError.
RECURSIVE PropertyWalk(_, _)
PropertyWalk(property, value) ==
    IF value = <<>> THEN [thrown |-> FALSE, property |-> property]
    ELSE IF Truthy(property) /\ property.t = "object"
            /\ Head(value) \in DOMAIN property.o
    THEN PropertyWalk(property.o[Head(value)], Tail(value))
    ELSE [thrown |-> TRUE, property |-> Undef]

\* getPropertyString: [thrown, query]; "" unless a token response and
\* extraUrlParams.profileUrl are there.
getPropertyString(tokenResponse, configProvider) ==
    IF Truthy(tokenResponse) /\ configProvider.extraUrlParams # <<>>
    THEN LET w == PropertyWalk(tokenResponse, configProvider.extraUrlParams)
         IN IF w.thrown THEN [thrown |-> TRUE, query |-> ""]
            ELSE [thrown |-> FALSE,
                  query |-> "?user=" \o TemplateString(w.property)]
    ELSE [thrown |-> FALSE, query |-> ""]

\* The field of the configuration getUserInfo takes the extra headers of
\* the profile request from.
ExtraProfileHeadersField(configProvider) == configProvider.extraUrlHeaders

\* The headers of the profile request of getUserInfo.
ProfileRequestHeaders(configProvider, access_token) ==
    LET field == ExtraProfileHeadersField(configProvider)
        extra == IF Truthy(field) /\ Truthy(Get(field, "profileUrl"))
                 THEN Get(field, "profileUrl") ELSE EmptyObj
    IN Spread(Obj("Authorization"
                  :> Str("Bearer " \o TemplateString(access_token))),
              extra)

NativeIdle ==
    [pc |-> "called", provider |-> "google", code |-> Undef,
     configProvider |-> [extraHeaderParams |-> Undef,
                         extraUrlHeaders |-> Undef, extraUrlParams |-> <<>>],
     tokenReply |-> Undef, access_token |-> Undef,
     requests |-> <<>>, outcome |-> "none", status |-> "none",
     data |-> Undef]

InitNative ==
    /\ ex = [i \in Instances |-> ExecIdle]
    /\ IdleRest
    /\ \E provider \in OAuth2Providers, code \in Codes,
          c \in ProviderConfigs :
          gap = [NativeIdle EXCEPT !.provider = provider, !.code = code,
                                   !.configProvider = c]

nativeFrame == <<ex, run, bodyParams, localStorage, persisted, page, flow>>

\* getUserInfo up to its await: the profile request is sent, unless
\* getPropertyString threw, which the catch turns into status "error".
getUserInfo(g, access_token, tokenResponse) ==
    LET q == getPropertyString(tokenResponse, g.configProvider) IN
    IF q.thrown
    THEN [g EXCEPT !.pc = "returned", !.access_token = access_token,
                   !.outcome = "returned", !.status = "error"]
    ELSE [g EXCEPT
            !.pc = "profile", !.access_token = access_token,
            !.requests = Append(@,
                [to |-> "profile", query |-> q.query,
                 headers |-> ProfileRequestHeaders(g.configProvider,
                                                   access_token)])]

\* getUser up to its first await: no code returns an error; google goes to
\* getUserInfo with the code as the token, any other provider posts the
\* code to the token endpoint.
GetUserNative ==
    /\ gap.pc = "called"
    /\ gap' = IF ~Truthy(gap.code)
              THEN [gap EXCEPT !.pc = "returned", !.outcome = "returned",
                               !.status = "error"]
              ELSE IF gap.provider # "google"
              THEN [gap EXCEPT
                      !.pc = "token",
                      !.requests = Append(@,
                          [to |-> "token", query |-> TemplateString(gap.code),
                           headers |-> Obj("Accept"
                                           :> Str("application/json"))])]
              ELSE getUserInfo(gap, gap.code, Undef)
    /\ UNCHANGED nativeFrame

\* getBodyAccessCode returns and getUser goes on: a rejection is status
\* "error" and getUser returns; any parsed body is status "success" and
\* access_token = response.data.access_token, a TypeError out of getUser
\* when the body is null.
TokenExchangeReturns ==
    /\ gap.pc = "token"
    /\ \E reply \in TokenReplies :
          gap' = IF reply.rejected
                 THEN [gap EXCEPT !.pc = "returned", !.tokenReply = Str("rejected"),
                                  !.outcome = "returned", !.status = "error"]
                 ELSE IF AccessThrows(reply.data)
                 THEN [gap EXCEPT !.pc = "returned", !.tokenReply = reply.data,
                                  !.outcome = "TypeError"]
                 ELSE getUserInfo([gap EXCEPT !.tokenReply = reply.data],
                                  Get(reply.data, "access_token"), reply.data)
    /\ UNCHANGED nativeFrame

\* The profile request settles and getUserInfo returns.
ProfileReturns ==
    /\ gap.pc = "profile"
    /\ \E reply \in ProfileReplies :
          gap' = [gap EXCEPT
                    !.pc = "returned", !.outcome = "returned",
                    !.status = IF reply.rejected THEN "error" ELSE "success",
                    !.data = reply.data]
    /\ UNCHANGED nativeFrame

NextNative == GetUserNative \/ TokenExchangeReturns \/ ProfileReturns

SpecNative == InitNative /\ [][NextNative]_vars

(***************************************************************************)
(* SpecEncode: pE and convertToUrlParams applied to bounded texts. A text  *)
(* is the sequence of its characters.                                      *)
(***************************************************************************)
\* The longest parameter value that is encoded.
MaxText == 2

\* The characters of the values: a letter, the five characters pE escapes
\* itself, one more that encodeURIComponent leaves alone, and two that
\* encodeURIComponent escapes.
TextChars == {"a", "!", "*", "'", "(", ")", "~", " ", "&"}

RECURSIVE TextsUpTo(_)
TextsUpTo(n) ==
    IF n = 0 THEN {<<>>}
    ELSE LET shorter == TextsUpTo(n - 1) IN
         shorter \cup {Append(t, c) : t \in shorter, c \in TextChars}

\* encodeURIComponent on the characters: everything but letters, digits and
\* - _ . ! ~ * ' ( ) becomes its %XX escape.
UriEscapeOf(c) ==
    CASE c = " " -> <<"%", "2", "0">>
      [] c = "&" -> <<"%", "2", "6">>
      [] OTHER -> <<c>>

RECURSIVE encodeURIComponentChars(_)
encodeURIComponentChars(str) ==
    IF str = <<>> THEN <<>>
    ELSE UriEscapeOf(Head(str)) \o encodeURIComponentChars(Tail(str))

\* String.prototype.replace with a global pattern of one character.
RECURSIVE ReplaceAll(_, _, _)
ReplaceAll(str, c, escape) ==
    IF str = <<>> THEN <<>>
    ELSE (IF Head(str) = c THEN escape ELSE <<Head(str)>>)
         \o ReplaceAll(Tail(str), c, escape)

\* An encoder that forgets the parentheses.
pEWithoutParentheses(str) ==
    ReplaceAll(ReplaceAll(ReplaceAll(encodeURIComponentChars(str),
        "!", <<"%", "2", "1">>), "*", <<"%", "2", "A">>),
        "'", <<"%", "2", "7">>)

\* pE: encodeURIComponent(str) and then the five replacements, in order.
pE(str) ==
    ReplaceAll(ReplaceAll(ReplaceAll(ReplaceAll(ReplaceAll(
        encodeURIComponentChars(str),
        "!", <<"%", "2", "1">>), "*", <<"%", "2", "A">>),
        "'", <<"%", "2", "7">>), "(", <<"%", "2", "8">>),
        ")", <<"%", "2", "9">>)

\* request.percentEncode as configured, and initParams'
\* request.percentEncode ?? false.
PercentEncodeFlags == {"absent", "false", "true"}

percentEncodeOf(flag) == flag = "true"

\* The forEach of convertToUrlParams: key=value& for each entry, the value
\* through pE or through encodeURIComponent.
RECURSIVE EntriesToUrl(_, _)
EntriesToUrl(urlParams, pe) ==
    IF urlParams = <<>> THEN <<>>
    ELSE Head(urlParams)[1] \o <<"=">>
         \o (IF pe THEN pE(Head(urlParams)[2])
             ELSE encodeURIComponentChars(Head(urlParams)[2]))
         \o <<"&">>
         \o EntriesToUrl(Tail(urlParams), pe)

\* convertToUrlParams: "?" and the entries, without the last character.
convertToUrlParams(urlParams, pe) ==
    LET finalUrl == <<"?">> \o EntriesToUrl(urlParams, pe)
    IN SubSeq(finalUrl, 1, Len(finalUrl) - 1)

\* The parameter maps: one or two keys, in insertion order.
UrlParamMaps ==
    {<< <<(<<"k">>), v>> >> : v \in TextsUpTo(MaxText)}
    \cup {<< <<(<<"k">>), v>>, <<(<<"q">>), w>> >> :
             v \in TextsUpTo(1), w \in {<<"a">>, <<"(">>, <<"&">>}}

InitEncode ==
    /\ ex = [i \in Instances |-> ExecIdle]
    /\ IdleRest
    /\ \E m \in UrlParamMaps, flag \in PercentEncodeFlags :
          gap = [pc |-> "called", urlParams |-> m, percentEncode |-> flag,
                 finalUrl |-> <<>>]

\* requestUrl = url + convertToUrlParams(params.urlParams,
\* params.percentEncode)
ConvertToUrlParamsCall ==
    /\ gap.pc = "called"
    /\ gap' = [gap EXCEPT
                 !.pc = "done",
                 !.finalUrl = convertToUrlParams(
                     gap.urlParams, percentEncodeOf(gap.percentEncode))]
    /\ UNCHANGED <<ex, run, bodyParams, localStorage, persisted, page, flow>>

NextEncode == ConvertToUrlParamsCall

SpecEncode == InitEncode /\ [][NextEncode]_vars

(***************************************************************************)
(* SpecSigner: the OAuth 1.0a signer functions called with an object of    *)
(* the caller. A parameter object is a map from its keys to texts; each    *)
(* function gives its result and what the object passed to it holds after  *)
(* the call.                                                               *)
(***************************************************************************)
\* The keys of the parameters, in the order sort() puts them.
SortedKeys == <<"oauth_nonce", "oauth_token", "page">>

SignerKeys == {SortedKeys[n] : n \in DOMAIN SortedKeys}

SignerValues == {<<"a">>, <<"!">>}

\* The parameter objects: any keys, any values.
SignerObjects ==
    UNION {[keys -> SignerValues] : keys \in SUBSET SignerKeys}

\* The query of the provider's url, as decodeQueryParams gives it: no
\* query, one parameter, or two of which one is also a key of oauth_data.
UrlQueries ==
    {<<>>} \cup {("page" :> <<"a">>)}
    \cup {("oauth_token" :> <<"!">>)}
    \cup {("page" :> <<"a">> @@ "oauth_token" :> <<"!">>)}

SignerFunctions ==
    {"getSignature", "baseString", "parameterString", "mergeObjects"}

\* mergeObjects: Object.assign(obj1, obj2) writes the entries of obj2 into
\* obj1 and returns obj1.
mergeObjects(obj1, obj2) ==
    [returned |-> obj2 @@ obj1, obj1 |-> obj2 @@ obj1]

\* sortObject: a new object with the keys in sorted order, here the entries
\* in that order.
RECURSIVE EntriesFrom(_, _)
EntriesFrom(obj, n) ==
    IF n > Len(SortedKeys) THEN <<>>
    ELSE (IF SortedKeys[n] \in DOMAIN obj
          THEN << <<SortedKeys[n], obj[SortedKeys[n]]>> >> ELSE <<>>)
         \o EntriesFrom(obj, n + 1)

sortObject(obj) == EntriesFrom(obj, 1)

\* The forEach of parameterString: key=pE(value)& for each entry.
RECURSIVE JoinEntries(_)
JoinEntries(entries) ==
    IF entries = <<>> THEN <<>>
    ELSE <<Head(entries)[1]>> \o <<"=">> \o pE(Head(entries)[2]) \o <<"&">>
         \o JoinEntries(Tail(entries))

\* parameterString: sortObject(mergeObjects(oauth_data,
\* decodeQueryParams(url))), joined, without the last "&", through pE; "="
\* and "&" are escaped by encodeURIComponent.
parameterString(oauth_data, query) ==
    LET merged == mergeObjects(oauth_data, query)
        joined == JoinEntries(sortObject(merged.returned))
    IN [result |-> [pE |-> SubSeq(joined, 1, Len(joined) - 1)],
        oauth_data |-> merged.obj1]

\* baseString: method & baseUrl(url) & parameterString(oauth_data, url).
baseString(method, query, oauth_data) ==
    LET ps == parameterString(oauth_data, query)
    IN [result |-> <<method, "baseUrl", ps.result>>,
        oauth_data |-> ps.oauth_data]

\* getSignature: baseString is given sortObject(oauth_data), a new object;
\* the result is the hash of the base string under the signing key, through
\* pE unless percentEncode is false.
getSignature(method, query, oauth_data) ==
    LET sorted == [key \in DOMAIN oauth_data |-> oauth_data[key]]
        bString == baseString(method, query, sorted)
    IN [result |-> [pE |-> [hmacSha1 |-> bString.result]],
        oauth_data |-> oauth_data]

InitSigner ==
    /\ ex = [i \in Instances |-> ExecIdle]
    /\ IdleRest
    /\ \E fn \in SignerFunctions, data \in SignerObjects, q \in UrlQueries :
          gap = [pc |-> "called", fn |-> fn, oauth_data |-> data,
                 query |-> q, passed |-> data, result |-> <<>>]

\* One call of a signer function with the caller's oauth_data; passed is
\* what that object holds afterwards.
SignerCall ==
    /\ gap.pc = "called"
    /\ LET r == CASE gap.fn = "getSignature" ->
                       getSignature("POST", gap.query, gap.oauth_data)
                  [] gap.fn = "baseString" ->
                       baseString("POST", gap.query, gap.oauth_data)
                  [] gap.fn = "parameterString" ->
                       parameterString(gap.oauth_data, gap.query)
                  [] gap.fn = "mergeObjects" ->
                       LET m == mergeObjects(gap.oauth_data, gap.query)
                       IN [result |-> m.returned, oauth_data |-> m.obj1]
       IN gap' = [gap EXCEPT !.pc = "done", !.result = r.result,
                             !.passed = r.oauth_data]
    /\ UNCHANGED <<ex, run, bodyParams, localStorage, persisted, page, flow>>

NextSigner == SignerCall

SpecSigner == InitSigner /\ [][NextSigner]_vars

(***************************************************************************)
(* SpecSelect: the three entry points choose, for one provider name and    *)
(* one configuration, the kind of flow they run.                           *)
(***************************************************************************)
ProviderNames == {"github", "acme"}

\* Configurations: the providers and the customProviders map, each absent or
\* holding some of the names; serverUrl and the entries' serverEndPoint set
\* or not.
SelectConfigs ==
    {c \in [hasProviders : BOOLEAN, providers : SUBSET ProviderNames,
            hasCustomProviders : BOOLEAN,
            customProviders : SUBSET ProviderNames,
            serverUrl : BOOLEAN, serverEndPoint : BOOLEAN] :
        /\ ~c.hasProviders => c.providers = {}
        /\ ~c.hasCustomProviders => c.customProviders = {}}

\* checkValidProvider throws when the configuration has neither map.
checkValidProvider(config) ==
    config.hasProviders \/ config.hasCustomProviders

\* handleLoginButtonClick: the providers map is looked up first, then the
\* customProviders map; a name in neither starts nothing.
handleLoginButtonClick(config, provider) ==
    IF ~checkValidProvider(config) THEN "thrown"
    ELSE IF config.hasProviders /\ provider \in config.providers
    THEN "native"
    ELSE IF config.hasCustomProviders /\ provider \in config.customProviders
    THEN "custom"
    ELSE "none"

\* handleOAuthRedirect, from the provider lookup on: the validity checks,
\* then the custom resume whenever the name is in customProviders, else
\* afterRedirect.
handleOAuthRedirect(config, provider) ==
    IF ~checkValidProvider(config) THEN "thrown"
    ELSE IF /\ config.hasProviders
            /\ \/ /\ provider \notin config.providers
                  /\ provider \notin config.customProviders
               \/ /\ provider \in config.providers
                  /\ ~config.serverEndPoint
               \/ ~config.serverUrl
    THEN "thrown"
    ELSE IF /\ ~config.hasProviders
            /\ config.hasCustomProviders
            /\ \/ provider \notin config.customProviders
               \/ ~config.serverEndPoint
               \/ ~config.serverUrl
    THEN "thrown"
    ELSE IF config.hasCustomProviders /\ provider \in config.customProviders
    THEN "custom"
    ELSE "native"

\* getUser: the providers map is looked up first, then the customProviders
\* map; a name in neither is an error.
getUser(config, provider) ==
    IF ~checkValidProvider(config) THEN "thrown"
    ELSE IF config.hasProviders /\ provider \in config.providers
    THEN "native"
    ELSE IF config.hasCustomProviders /\ provider \in config.customProviders
    THEN "custom"
    ELSE "thrown"

InitSelect ==
    /\ ex = [i \in Instances |-> ExecIdle]
    /\ IdleRest
    /\ \E c \in SelectConfigs, n \in ProviderNames :
          gap = [pc |-> "page", config |-> c, provider |-> n,
                 started |-> "pending", resumed |-> "pending",
                 executed |-> "pending"]

selectFrame == <<ex, run, bodyParams, localStorage, persisted, page, flow>>

\* The user clicks the provider's button.
SelectClick ==
    /\ gap.pc = "page"
    /\ LET kind == handleLoginButtonClick(gap.config, gap.provider)
       IN gap' = [gap EXCEPT
                    !.started = kind,
                    !.pc = IF kind \in {"native", "custom"}
                           THEN "redirected" ELSE "over"]
    /\ UNCHANGED selectFrame

\* The provider redirected back and the page calls handleOAuthRedirect with
\* the state that names the provider.
SelectRedirect ==
    /\ gap.pc = "redirected"
    /\ LET kind == handleOAuthRedirect(gap.config, gap.provider)
       IN gap' = [gap EXCEPT
                    !.resumed = kind,
                    !.pc = IF kind \in {"native", "custom"}
                           THEN "posted" ELSE "over"]
    /\ UNCHANGED selectFrame

\* The resumed flow posted to the server end point, which calls getUser with
\* the provider name of the body.
SelectGetUser ==
    /\ gap.pc = "posted"
    /\ gap' = [gap EXCEPT !.executed = getUser(gap.config, gap.provider),
                          !.pc = "over"]
    /\ UNCHANGED selectFrame

NextSelect == SelectClick \/ SelectRedirect \/ SelectGetUser

SpecSelect == InitSelect /\ [][NextSelect]_vars

(***************************************************************************)
(* SpecHelper: helperFunction, called with one request body under two      *)
(* configurations that differ at most in the client secret.                *)
(***************************************************************************)
ClientSecrets == {"s1", "s2"}

\* The configuration setConfig stored, with a provider's client secret.
HelperConfig(secret) ==
    Obj("serverUrl" :> Str("https://app")
        @@ "providers" :>
             Obj("github" :> Obj("clientId" :> Str("id")
                                 @@ "clientSecret" :> Str(secret))))

\* The keys of the functions object of getRequiredFunctions.
RegistryFunctions ==
    {"getSignature", "getNonce", "getTimeStamp", "parseToken",
     "constructOAuthData", "baseString", "baseUrl", "mergeObjects",
     "parameterString", "decodeQueryParams", "sortObject", "signingKey",
     "pE", "convertToUrlParams", "convertStringsToObject", "cleanObject",
     "createFormWithParams", "decodeAndGetParams", "decodeAllURIComponents",
     "getConfig"}

\* functions is an object literal: functions[functionName] also finds what
\* it inherits from Object.prototype.
ObjectPrototypeFunctions == {"constructor"}

\* The function names a request body may carry: of the registry, inherited
\* by it, and known to neither.
HelperFunctionNames == {"getConfig", "pE", "constructor", "eval"}

\* getRequiredFunctions([functionName], "server")[functionName]: the function
\* found under the name, or "Function not found" thrown.
getRequiredFunctions(functionName) ==
    IF functionName \in RegistryFunctions
    THEN [outcome |-> "ok", function |-> functionName]
    ELSE IF functionName \in ObjectPrototypeFunctions
    THEN [outcome |-> "ok", function |-> "Object"]
    ELSE [outcome |-> "thrown", function |-> "none"]

\* getConfig returns the stored configuration object.
getConfig(config) == config

NoReply ==
    [outcome |-> "none", invoked |-> "none", error |-> "", data |-> Undef,
     text |-> <<>>]

\* helperFunction: the function is looked up, called with the parameters of
\* the body, and its result returned as {data: response}; text is a string
\* result, data any other.
helperFunction(body, config) ==
    LET reqFunction == getRequiredFunctions(body.functionName) IN
    IF reqFunction.outcome = "thrown"
    THEN [NoReply EXCEPT !.outcome = "thrown", !.error = "Function not found"]
    ELSE CASE reqFunction.function = "getConfig" ->
                [NoReply EXCEPT !.outcome = "returned",
                                !.invoked = "getConfig",
                                !.data = getConfig(config)]
           [] reqFunction.function = "pE" ->
                [NoReply EXCEPT !.outcome = "returned", !.invoked = "pE",
                                !.text = pE(body.functionParams[1])]
           [] reqFunction.function = "Object" ->
                [NoReply EXCEPT !.outcome = "returned", !.invoked = "Object",
                                !.text = body.functionParams[1]]

InitHelper ==
    /\ ex = [i \in Instances |-> ExecIdle]
    /\ IdleRest
    /\ \E name \in HelperFunctionNames, t \in TextsUpTo(MaxText),
          s1 \in ClientSecrets, s2 \in ClientSecrets :
          gap = [pc |-> "received",
                 body |-> [functionName |-> name, functionParams |-> <<t>>],
                 secrets |-> <<s1, s2>>,
                 replies |-> <<NoReply, NoReply>>]

\* The server answers the body under either configuration.
HelperFunctionCall ==
    /\ gap.pc = "received"
    /\ gap' = [gap EXCEPT
                 !.pc = "replied",
                 !.replies =
                     <<helperFunction(gap.body, HelperConfig(gap.secrets[1])),
                       helperFunction(gap.body, HelperConfig(gap.secrets[2]))>>]
    /\ UNCHANGED <<ex, run, bodyParams, localStorage, persisted, page, flow>>

NextHelper == HelperFunctionCall

SpecHelper == InitHelper /\ [][NextHelper]_vars

(***************************************************************************)
(* Spec: the custom-provider pipeline.  Either the browser runs the        *)
(* before-redirect stage, persists, redirects and resumes, or the server   *)
(* runs the after-redirect stage for a request body it received.           *)
(***************************************************************************)
\* The request bodies getUser receives: {provider, allUrlParams,
\* previousFetchData} as the browser sends them, or with a part missing.
SampleBodies ==
    {Obj("provider" :> Str(Provider)
         @@ "allUrlParams" :> Obj("code" :> Str("c"))
         @@ "previousFetchData" :>
              Obj("step1" :> FetchRecord(SampleRequest,
                                         Obj("token" :> Str("T"))))),
     Obj("provider" :> Str(Provider)
         @@ "allUrlParams" :> Obj("code" :> Str("c"))
         @@ "previousFetchData" :> EmptyObj),
     Obj("provider" :> Str(Provider)
         @@ "allUrlParams" :> Obj("code" :> Str("c"))),
     Obj("provider" :> Str(Provider)
         @@ "allUrlParams" :> Obj("code" :> Str("c")
                                  @@ "clientId" :> Str("x"))
         @@ "previousFetchData" :> EmptyObj)}

\* paramsList.state of a provider in mode "ls" (the provider does not echo
\* the state parameter), given as the text the string holds: some text that
\* is not JSON, or JSON.stringify of {auth, userState} as the README shows;
\* Undef when there is none or the mode is "url".
LsStates ==
    {Undef, RawText("abc"),
     JsonStringify(Obj("auth" :> Str(Provider) @@ "userState" :> Str("u1")))}

\* The current step's descriptor.
Details(r) == r.reqUrls[r.index]

\* A loop that sends every step through the Request Executor.
redirectNever(i, r) == FALSE

\* The last url of the before-redirect stage is the redirect.
redirectThisTime(i, r) == i = "client" /\ r.index = Len(r.reqUrls)

\* handleCustomProvidersLoginButtonClick up to its loop: initGlobalParams
\* gives an empty ledger and an empty accumulator.
Click ==
    /\ \A i \in Instances : run[i].pc = "idle"
    /\ \E stage \in Stages, state \in LsStates :
         run' = [run EXCEPT !["client"] =
                   [RunIdle EXCEPT !.pc = "initParams", !.reqUrls = stage,
                                   !.index = 1, !.state = state]]
    /\ UNCHANGED <<gap, flow, ex, bodyParams, localStorage, persisted, page>>

\* getUser for a custom provider, and getCustomProviderUserInfo up to its
\* loop: of the body only allUrlParams is passed on, and initGlobalParams
\* gives an empty ledger.
GetUser ==
    /\ \A i \in Instances : run[i].pc = "idle"
    /\ \E body \in SampleBodies, stage \in Stages :
         /\ bodyParams' = body
         /\ IF ~Truthy(Get(body, "allUrlParams"))
               \/ ~Truthy(Get(body, "previousFetchData"))
            THEN run' = [run EXCEPT !["server"] =
                   [RunIdle EXCEPT
                      !.pc = "returned",
                      !.returned =
                          Obj("status" :> Str("error")
                              @@ "data" :> Obj("error" :>
                                   Str("Invalid Params passed")
                                   @@ "data" :> Null))]]
            ELSE run' = [run EXCEPT !["server"] =
                   [RunIdle EXCEPT
                      !.pc = "initParams", !.reqUrls = stage, !.index = 1,
                      !.specificParser = Get(body, "allUrlParams")]]
    /\ UNCHANGED <<gap, flow, ex, localStorage, persisted, page>>

\* configProvider.paramsList, as the caller configured it.
ParamsList ==
    Obj("clientId" :> Str("id") @@ "clientSecret" :> Str("secret"))

\* The givenParams argument of initParams: globals.givenParams in the
\* browser; on the server {...globals.givenParams, ...allParams} for the
\* first url and {...globals.givenParams} for the others.
GivenParamsFor(i, r) ==
    IF i = "server" /\ r.index = 1
    THEN Spread(ParamsList, r.specificParser)
    ELSE ParamsList

\* initParams of the current step, from the runner's ledger.
Resolved(r) == initParams(Details(r), r.previousFetchData, r.specificParser)

\* initParams throws (through throwError, or a raw TypeError): the stage ends.
StepResolveFails(i) ==
    /\ run[i].pc = "initParams"
    /\ Resolved(run[i]).outcome # "ok"
    /\ run' = [run EXCEPT
                 ![i].pc = "failed",
                 ![i].givenParams = GivenParamsFor(i, run[i]),
                 ![i].error = Resolved(run[i]).outcome,
                 ![i].events = <<>>,
                 ![i].side = "request",
                 ![i].handlerCalls =
                     IF Resolved(run[i]).outcome = "handled"
                     THEN <<onErrorOf(Details(run[i]), run[i].observability)>>
                     ELSE <<>>]
    /\ UNCHANGED <<gap, flow, ex, bodyParams, localStorage, persisted, page>>

\* The loop body up to await waitAndRetryRequest(...): the request is saved
\* in currentFetchData and handed to the Request Executor.
StepRequest(i) ==
    /\ run[i].pc = "initParams"
    /\ ~redirectThisTime(i, run[i])
    /\ LET params == Resolved(run[i]) IN
       /\ params.outcome = "ok"
       /\ run' = [run EXCEPT
                    ![i].pc = "awaitRequest",
                    ![i].requests = @ + 1,
                    ![i].events = <<>>,
                    ![i].givenParams = GivenParamsFor(i, run[i]),
                    ![i].currentFetchData =
                        Put(NewFetchData, "request",
                            RequestOf(Details(run[i]), params))]
       /\ ex' = [ex EXCEPT ![i] =
                    [ExecCall(params.maxRetries, params.policy, "provider")
                       EXCEPT !.validators = Details(run[i]).validators]]
    /\ UNCHANGED <<gap, flow, bodyParams, localStorage, persisted, page>>

\* waitAndRetryRequest threw, each of its throwError calls having passed the
\* error to onErrorInResponse: the stage ends, nothing is appended.
StepThrown(i) ==
    /\ run[i].pc = "awaitRequest"
    /\ ex[i].pc = "thrown"
    /\ run' = [run EXCEPT
                 ![i].pc = "failed", ![i].error = "handled",
                 ![i].events = ex[i].events,
                 ![i].side = "response",
                 ![i].handlerCalls =
                     [k \in 1..ex[i].errorHandlerCalls |->
                        onErrorInResponseOf(Details(run[i]),
                                            run[i].observability)]]
    /\ ex' = [ex EXCEPT ![i] = ExecIdle]
    /\ UNCHANGED <<gap, flow, bodyParams, localStorage, persisted, page>>

\* return {previousFetchData, toReturnObject} with toReturnObject.name =
\* provider, wrapped by getUser in {status: "success", data: userInfo}.
\* A result that keeps the name the steps extracted.
UserInfoWithExtractedName(previousFetchData, toReturnObject) ==
    Obj("status" :> Str("success")
        @@ "data" :> Obj("previousFetchData" :> previousFetchData
                         @@ "toReturnObject" :> toReturnObject))

UserInfo(previousFetchData, toReturnObject) ==
    Obj("status" :> Str("success")
        @@ "data" :> Obj("previousFetchData" :> previousFetchData
                         @@ "toReturnObject" :>
                              Put(toReturnObject, "name", Str(Provider))))

\* The loop body after the await, when nothing throws: onRequestEnd (547-552),
\* storeValuesToReturn (555-563), params.beforeRedirect (565-568), the
\* assignment of the new ledger (572-575).
EndOfStep == <<"onRequestEnd", "project", "beforeRedirect", "append">>

\* A hook that is given the ledger after the append.
HookLedgerAfterAppend(previousFetchData, name, currentFetchData) ==
    AppendToLedger(previousFetchData, name, currentFetchData)

\* params.beforeRedirect(globals.previousFetchData, params.currentFetchData),
\* called before globals.previousFetchData is assigned the new ledger: the
\* ledger the hook is given.
HookLedger(previousFetchData, name, currentFetchData) == previousFetchData

\* The loop body after the await: the response is saved, onRequestEnd is
\* called, the values to return are stored, the step's beforeRedirect hook
\* is called, the record is appended; then the next step, or the end of the
\* after-redirect stage.
StepComplete(i) ==
    /\ run[i].pc = "awaitRequest"
    /\ ex[i].pc = "returned"
    /\ LET r == run[i]
           providerResponse == ex[i].result
           saved == IF i = "server" /\ AccessThrows(providerResponse)
                    THEN Str("Error") ELSE providerResponse
           currentFetchData == Put(r.currentFetchData, "response", saved)
           stored == storeValuesToReturn(Details(r).toReturn, providerResponse)
           toReturnObject == Spread(r.toReturnObject, stored.value)
           hookLedger ==
               HookLedger(r.previousFetchData, StepName(Details(r)),
                          currentFetchData)
           previousFetchData ==
               AppendToLedger(r.previousFetchData, StepName(Details(r)),
                              currentFetchData)
       IN
       IF stored.outcome # "ok"
       THEN run' = [run EXCEPT
                      ![i].pc = "failed",
                      ![i].currentFetchData = currentFetchData,
                      ![i].error = stored.outcome,
                      ![i].events = ex[i].events \o <<"onRequestEnd">>,
                      ![i].side = "response",
                      ![i].handlerCalls =
                          <<onErrorInResponseOf(Details(r), r.observability)>>]
       ELSE IF r.index = Len(r.reqUrls)
       THEN run' = [run EXCEPT
                      ![i].pc = "returned",
                      ![i].currentFetchData = currentFetchData,
                      ![i].toReturnObject = toReturnObject,
                      ![i].previousFetchData = previousFetchData,
                      ![i].events = ex[i].events \o EndOfStep,
                      ![i].hookLedger = hookLedger,
                      ![i].index = r.index + 1,
                      ![i].returned = UserInfo(previousFetchData,
                                               toReturnObject)]
       ELSE run' = [run EXCEPT
                      ![i].pc = "initParams",
                      ![i].currentFetchData = currentFetchData,
                      ![i].toReturnObject = toReturnObject,
                      ![i].previousFetchData = previousFetchData,
                      ![i].events = ex[i].events \o EndOfStep,
                      ![i].hookLedger = hookLedger,
                      ![i].index = r.index + 1]
    /\ ex' = [ex EXCEPT ![i] = ExecIdle]
    /\ UNCHANGED <<gap, flow, bodyParams, localStorage, persisted, page>>

\* A form that is submitted whatever the test flag says.
SubmitsAlways(details) == TRUE

\* if (!params.details.test) redirectForm.submit()
Submits(details) == ~details.test

\* redirectOnCustomProviderButtonClick, reached from the loop body for the
\* last url: the record of the redirect step is added to a local copy of the
\* ledger, then the ledger and the accumulator are written to local storage
\* one after the other; btoa throws on a character outside Latin-1.
StepRedirect ==
    /\ run["client"].pc = "initParams"
    /\ redirectThisTime("client", run["client"])
    /\ LET r == run["client"]
           params == Resolved(r)
           currentFetchData ==
               Put(NewFetchData, "request", RequestOf(Details(r), params))
           previousFetchData ==
               AppendToLedger(r.previousFetchData, params.name,
                              currentFetchData)
           fetchesText == JsonStringify(previousFetchData)
           toReturnText == JsonStringify(r.toReturnObject)
       IN
       /\ params.outcome = "ok"
       /\ IF HasNonLatin1(fetchesText)
          THEN /\ run' = [run EXCEPT !["client"].pc = "failed",
                            !["client"].currentFetchData = currentFetchData,
                            !["client"].givenParams =
                                GivenParamsFor("client", r),
                            !["client"].error = "DOMException"]
               /\ UNCHANGED <<localStorage, persisted, page>>
          ELSE IF HasNonLatin1(toReturnText)
          THEN /\ run' = [run EXCEPT !["client"].pc = "failed",
                            !["client"].currentFetchData = currentFetchData,
                            !["client"].givenParams =
                                GivenParamsFor("client", r),
                            !["client"].error = "DOMException"]
               /\ localStorage' =
                    [localStorage EXCEPT
                       ![storeFetchesAs] = encodeToBase64(fetchesText)]
               /\ persisted' = [persisted EXCEPT
                                  !.previousFetchData = previousFetchData]
               /\ UNCHANGED page
          ELSE /\ run' = [run EXCEPT !["client"].pc = "redirected",
                            !["client"].givenParams =
                                GivenParamsFor("client", r),
                            !["client"].currentFetchData = currentFetchData]
               /\ localStorage' =
                    [localStorage EXCEPT
                       ![storeFetchesAs] = encodeToBase64(fetchesText),
                       ![storeToReturnAs] = encodeToBase64(toReturnText),
                       ![StateKey] = IF r.state # Undef
                                     THEN encodeToBase64(r.state)
                                     ELSE @]
               /\ persisted' =
                    [done |-> TRUE, previousFetchData |-> previousFetchData,
                     toReturnObject |-> r.toReturnObject]
               /\ page' = [page EXCEPT
                             !.form = [appended |-> TRUE,
                                       action |-> Details(r).url,
                                       submitted |-> Submits(Details(r))],
                             !.at = IF Submits(Details(r)) THEN "provider"
                                    ELSE @]
    /\ UNCHANGED <<gap, flow, ex, bodyParams>>

\* How many times the redirect page is loaded.
MaxResumes == 2

\* maxRetries of the request handleAfterRedirectForCustomProviders sends.
ResumeMaxRetries == 3

\* The parameters the provider put on the redirect url.
AllUrlParams == Obj("code" :> Str("c"))

\* The redirect page can be loaded whenever the before-redirect stage is
\* over, also again after a resume.
ResumePossible ==
    /\ run["client"].pc \in {"redirected", "failed", "returned"}
    /\ page.resumes < MaxResumes

\* handleAfterRedirectForCustomProviders when an entry is missing: throwError
\* inside the try, caught, thrown again by the catch block's throwError; the
\* two removeItem calls after the try are not reached.
ResumeFails ==
    /\ ResumePossible
    /\ \E key \in StorageKeys : ~localStorage[key].present
    /\ LET gotFetches == localStorage[storeFetchesAs].present IN
       /\ run' = [run EXCEPT !["client"] =
                    [RunIdle EXCEPT
                       !.pc = "failed", !.reqUrls = run["client"].reqUrls,
                       !.read = IF gotFetches THEN {storeFetchesAs} ELSE {},
                       !.error = "handled"]]
       /\ page' = [page EXCEPT
                     !.at = "app", !.resumes = @ + 1,
                     !.ledgerReads = @ + (IF gotFetches THEN 1 ELSE 0)]
    /\ UNCHANGED <<gap, flow, ex, bodyParams, localStorage, persisted>>

\* handleAfterRedirectForCustomProviders up to its await: both entries are
\* read, decoded, parsed and merged into the fresh ledger and accumulator,
\* both entries are removed, and the request to the server is started.
ResumeRead ==
    /\ ResumePossible
    /\ \A key \in StorageKeys : localStorage[key].present
    /\ LET previousStoredFetchData ==
               JsonParse(decodeFromBase64(localStorage[storeFetchesAs]))
           previousToReturnObject ==
               JsonParse(decodeFromBase64(localStorage[storeToReturnAs]))
           previousFetchData == Spread(EmptyObj, previousStoredFetchData)
       IN
       /\ run' = [run EXCEPT !["client"] =
                    [RunIdle EXCEPT
                       !.pc = "awaitServer",
                       !.reqUrls = run["client"].reqUrls,
                       !.read = StorageKeys,
                       !.previousFetchData = previousFetchData,
                       !.toReturnObject =
                           Spread(EmptyObj, previousToReturnObject)]]
       /\ bodyParams' =
            JsonParse(JsonStringify(
                Obj("provider" :> Str(Provider)
                    @@ "allUrlParams" :> AllUrlParams
                    @@ "previousFetchData" :> previousFetchData)))
    /\ localStorage' = [localStorage EXCEPT ![storeFetchesAs] = NoItem,
                                            ![storeToReturnAs] = NoItem]
    /\ ex' = [ex EXCEPT !["client"] =
                ExecCall(ResumeMaxRetries, "default", "server")]
    /\ page' = [page EXCEPT !.at = "app", !.resumes = @ + 1,
                             !.ledgerReads = @ + 1]
    /\ UNCHANGED <<gap, flow, persisted>>

\* What the server answers: getUser's success and error values.
ServerReplies ==
    {UserInfo(Obj("after1" :> FetchRecord(SampleRequest, EmptyObj)),
              Obj("user" :> Str("u"))),
     Obj("status" :> Str("error")
         @@ "data" :> Obj("error" :> Str("Invalid Params passed")
                          @@ "data" :> Null))}

ServerOutcomes ==
    {[kind |-> "response", status |-> 200, body |-> b] : b \in ServerReplies}
    \cup {[kind |-> "response", status |-> 503, body |-> Undef]}
    \cup {[kind |-> "abort", status |-> 0, body |-> Undef]}

ServerResponds(i) ==
    /\ ex[i].pc = "fetching"
    /\ ex[i].target = "server"
    /\ \E o \in ServerOutcomes, verdicts \in Verdicts(ex[i].validators) :
         ex' = [ex EXCEPT ![i] = ExecSettle(@, o, verdicts)]
    /\ UNCHANGED execFrame

\* ...response.data.previousFetchData: spreading a non-object adds nothing.
Spreadable(n) == IF n.t = "object" THEN n ELSE EmptyObj

\* handleAfterRedirectForCustomProviders after its await: the answer must be
\* an object with no key but status and data, and status "success".
ResumeComplete ==
    /\ run["client"].pc = "awaitServer"
    /\ ex["client"].pc = "returned"
    /\ LET r == run["client"]
           result == ex["client"].result
           partialResponse ==
               IF AccessThrows(result)
               THEN Obj("status" :> Str("error") @@ "data" :>
                        Str("Unknown error while fetching the data from server"))
               ELSE result
           response ==
               IF partialResponse.t = "object"
                  /\ DOMAIN partialResponse.o \subseteq {"status", "data"}
               THEN partialResponse
               ELSE Obj("status" :> Str("error") @@ "data" :>
                        Str("Invalid response type sent by the server"))
           data == Get(response, "data")
           toReturnObject ==
               Spread(r.toReturnObject,
                      Spreadable(Get(data, "toReturnObject")))
       IN
       IF Get(response, "status") = Str("success")
       THEN run' = [run EXCEPT
                      !["client"].pc = "returned",
                      !["client"].previousFetchData =
                          Spread(r.previousFetchData,
                                 Spreadable(Get(data, "previousFetchData"))),
                      !["client"].toReturnObject = toReturnObject,
                      !["client"].returned =
                          Obj("status" :> Str("success")
                              @@ "data" :> toReturnObject)]
       ELSE run' = [run EXCEPT !["client"].pc = "failed",
                               !["client"].error = "handled"]
    /\ ex' = [ex EXCEPT !["client"] = ExecIdle]
    /\ UNCHANGED <<gap, flow, bodyParams, localStorage, persisted, page>>

\* The request to the server threw out of waitAndRetryRequest.
ResumeThrown ==
    /\ run["client"].pc = "awaitServer"
    /\ ex["client"].pc = "thrown"
    /\ run' = [run EXCEPT !["client"].pc = "failed",
                          !["client"].error = "handled"]
    /\ ex' = [ex EXCEPT !["client"] = ExecIdle]
    /\ UNCHANGED <<gap, flow, bodyParams, localStorage, persisted, page>>

Init ==
    /\ gap = GapIdle
    /\ ex = [i \in Instances |-> ExecIdle]
    /\ IdleRest

Next ==
    \/ Click
    \/ GetUser
    \/ \E i \in Instances : StepResolveFails(i)
    \/ \E i \in Instances : StepRequest(i)
    \/ \E i \in Instances : StepThrown(i)
    \/ \E i \in Instances : StepComplete(i)
    \/ StepRedirect
    \/ ResumeFails
    \/ ResumeRead
    \/ ResumeComplete
    \/ ResumeThrown
    \/ \E i \in Instances : ExecSend(i)
    \/ \E i \in Instances : ProviderResponds(i)
    \/ \E i \in Instances : ServerResponds(i)
    \/ \E i \in Instances : ExecDelay(i)
    \/ \E i \in Instances : ExecExhausted(i)

Spec == Init /\ [][Next]_vars

(***************************************************************************)
(* SpecHooks: the stages run with error handlers configured at every level *)
(* and with a validator, in the browser up to the redirect and on the      *)
(* server.                                                                 *)
(***************************************************************************)
\* The most steps a stage of this specification has.
MaxHookSteps == 2

\* request.retries.maxRetries of the steps: not configured, configured as
\* 0, configured as 1.
RetriesGiven ==
    {[given |-> FALSE, maxRetries |-> 0],
     [given |-> TRUE, maxRetries |-> 0],
     [given |-> TRUE, maxRetries |-> 1]}

\* The stages of this specification: every step with the same choice of
\* request.onError and response.onError and with one validator or none; one
\* toReturn map, no test flag.
HookStages ==
    {[k \in DOMAIN stage |->
         [stage[k] EXCEPT !.handlers = h, !.validators = v,
                          !.maxRetries = m.maxRetries,
                          !.retriesGiven = m.given]] :
       stage \in {t \in Stages :
                    /\ Len(t) <= MaxHookSteps
                    /\ t[1].toReturn = <<Path("out", <<"token">>)>>
                    /\ ~t[Len(t)].test},
       h \in StepHandlers, v \in {0, 1}, m \in RetriesGiven}

\* handleCustomProvidersLoginButtonClick up to its loop, for a provider with
\* or without observability.onError.
ClickHooked ==
    /\ \A i \in Instances : run[i].pc = "idle"
    /\ \E stage \in HookStages, observability \in BOOLEAN :
         run' = [run EXCEPT !["client"] =
                   [RunIdle EXCEPT !.pc = "initParams", !.reqUrls = stage,
                                   !.index = 1,
                                   !.observability = observability]]
    /\ UNCHANGED <<gap, flow, ex, bodyParams, localStorage, persisted, page>>

\* getUser for the custom provider with a body that has allUrlParams and a
\* ledger of the before-redirect stage, and getCustomProviderUserInfo up to
\* its loop.
GetUserHooked ==
    /\ \A i \in Instances : run[i].pc = "idle"
    /\ \E body \in SampleBodies, stage \in HookStages,
          observability \in BOOLEAN :
         /\ Truthy(Get(body, "allUrlParams"))
         /\ Truthy(Get(body, "previousFetchData"))
         /\ Get(body, "previousFetchData") # EmptyObj
         /\ bodyParams' = body
         /\ run' = [run EXCEPT !["server"] =
                      [RunIdle EXCEPT
                         !.pc = "initParams", !.reqUrls = stage, !.index = 1,
                         !.specificParser = Get(body, "allUrlParams"),
                         !.observability = observability]]
    /\ UNCHANGED <<gap, flow, ex, localStorage, persisted, page>>

NextHooks ==
    \/ ClickHooked
    \/ GetUserHooked
    \/ \E i \in Instances : StepResolveFails(i)
    \/ \E i \in Instances : StepRequest(i)
    \/ \E i \in Instances : StepThrown(i)
    \/ \E i \in Instances : StepComplete(i)
    \/ StepRedirect
    \/ \E i \in Instances : ExecSend(i)
    \/ \E i \in Instances : ProviderResponds(i)
    \/ \E i \in Instances : ExecDelay(i)
    \/ \E i \in Instances : ExecExhausted(i)

SpecHooks == Init /\ [][NextHooks]_vars

(***************************************************************************)
(* SpecConcurrent: two handleLoginButtonClick calls for custom providers   *)
(* in one page. Each call has its own globals (initGlobalParams) and runs  *)
(* its pipeline between awaits; the page's local storage, with the two     *)
(* constant keys, and the page's navigation are shared. Here flow[f] is    *)
(* the pipeline of call f, persisted[f] what it serialised, and page what  *)
(* the browser does with the submitted forms.                              *)
(***************************************************************************)
ConcurrentFlows == {"A", "B"}

\* The requests a pipeline makes before its redirect-only step.
MaxRequests == 2

\* The configuration of one custom provider: the number of request steps,
\* the key of response.toReturn, the test flag of the last url and the
\* caller's state.
FlowConfigs ==
    [requests : 1..MaxRequests,
     toReturnKey : {"out", "U+540D"},
     test : BOOLEAN,
     hasState : BOOLEAN]

\* The names (details.name) of the request steps, in order.
RequestStepNames == <<"step1", "step2", "step3">>

\* handleCustomProvidersLoginButtonClick up to its first await: globals with
\* an empty ledger and accumulator, the first request in flight.
FlowStart(f, c) ==
    [pc |-> "awaitRequest", config |-> c, index |-> 1,
     previousFetchData |-> EmptyObj, toReturnObject |-> EmptyObj]

NothingFound == [previousFetchData |-> Undef, toReturnObject |-> Undef]

InitConcurrent ==
    /\ gap = GapIdle
    /\ ex = [i \in Instances |-> ExecIdle]
    /\ run = [i \in Instances |-> RunIdle]
    /\ bodyParams = NoBody
    /\ localStorage = EmptyStorage
    /\ \E cs \in [ConcurrentFlows -> FlowConfigs] :
          flow = [f \in ConcurrentFlows |-> FlowStart(f, cs[f])]
    /\ persisted = [f \in ConcurrentFlows |->
                      [previousFetchData |-> Undef, toReturnObject |-> Undef]]
    /\ page = [at |-> "app", navigating |-> "none", resumed |-> "none",
               found |-> NothingFound]

concurrentFrame == <<gap, ex, run, bodyParams>>

\* The response the provider of flow f gives to its step.
ResponseTo(f) == Obj("token" :> Str(f))

\* The await of a request step of flow f returns and the loop body runs to
\* its next await: the step is projected and appended, and when the next url
\* is the last one redirectOnCustomProviderButtonClick runs in the same
\* turn: record of the redirect step, setItem of the ledger, setItem of the
\* accumulator (btoa throws on a character outside Latin-1), setItem of the
\* state, submit unless details.test.
FlowContinues(f) ==
    /\ page.at = "app"
    /\ flow[f].pc = "awaitRequest"
    /\ LET r == flow[f]
           name == RequestStepNames[r.index]
           currentFetchData == Put(NewFetchData, "response", ResponseTo(f))
           stored == storeValuesToReturn(
                         <<Path(r.config.toReturnKey, <<"token">>)>>,
                         ResponseTo(f))
           toReturnObject == Spread(r.toReturnObject, stored.value)
           appended == AppendToLedger(r.previousFetchData, name,
                                      currentFetchData)
           previousFetchData == AppendToLedger(appended, "redirect",
                                               NewFetchData)
           fetchesText == JsonStringify(previousFetchData)
           toReturnText == JsonStringify(toReturnObject)
           after == [r EXCEPT !.previousFetchData = appended,
                              !.toReturnObject = toReturnObject,
                              !.index = r.index + 1]
       IN
       IF r.index < r.config.requests
       THEN /\ flow' = [flow EXCEPT ![f] = after]
            /\ UNCHANGED <<localStorage, persisted, page>>
       ELSE IF HasNonLatin1(fetchesText)
       THEN /\ flow' = [flow EXCEPT ![f] = [after EXCEPT !.pc = "failed"]]
            /\ UNCHANGED <<localStorage, persisted, page>>
       ELSE IF HasNonLatin1(toReturnText)
       THEN /\ flow' = [flow EXCEPT ![f] = [after EXCEPT !.pc = "failed"]]
            /\ localStorage' =
                 [localStorage EXCEPT
                    ![storeFetchesAs] = encodeToBase64(fetchesText)]
            /\ persisted' = [persisted EXCEPT
                               ![f].previousFetchData = previousFetchData]
            /\ UNCHANGED page
       ELSE /\ flow' = [flow EXCEPT ![f] = [after EXCEPT !.pc = "redirected"]]
            /\ localStorage' =
                 [localStorage EXCEPT
                    ![storeFetchesAs] = encodeToBase64(fetchesText),
                    ![storeToReturnAs] = encodeToBase64(toReturnText),
                    ![StateKey] = IF r.config.hasState
                                  THEN encodeToBase64(RawText(f)) ELSE @]
            /\ persisted' = [persisted EXCEPT
                               ![f] = [previousFetchData |-> previousFetchData,
                                       toReturnObject |-> toReturnObject]]
            /\ page' = IF Submits(r.config)
                       THEN [page EXCEPT !.navigating = f]
                       ELSE page
    /\ UNCHANGED concurrentFrame

\* The browser commits the navigation of the form submitted last: the page
\* goes away and with it every pipeline that was still waiting.
NavigationCommits ==
    /\ page.at = "app"
    /\ page.navigating # "none"
    /\ page' = [page EXCEPT !.at = "provider"]
    /\ flow' = [f \in ConcurrentFlows |->
                  IF flow[f].pc = "awaitRequest"
                  THEN [flow[f] EXCEPT !.pc = "unloaded"]
                  ELSE flow[f]]
    /\ UNCHANGED <<localStorage, persisted>>
    /\ UNCHANGED concurrentFrame

\* The provider redirects back and handleCustomProvidersAfterRedirect of the
\* flow that navigated reads the two entries and removes them.
FlowResumes ==
    /\ page.at = "provider"
    /\ \A key \in StorageKeys : localStorage[key].present
    /\ page' = [page EXCEPT
                  !.at = "resumed", !.resumed = page.navigating,
                  !.found =
                      [previousFetchData |->
                           JsonParse(decodeFromBase64(
                               localStorage[storeFetchesAs])),
                       toReturnObject |->
                           JsonParse(decodeFromBase64(
                               localStorage[storeToReturnAs]))]]
    /\ localStorage' = [localStorage EXCEPT ![storeFetchesAs] = NoItem,
                                            ![storeToReturnAs] = NoItem]
    /\ UNCHANGED <<flow, persisted>>
    /\ UNCHANGED concurrentFrame

NextConcurrent ==
    \/ \E f \in ConcurrentFlows : FlowContinues(f)
    \/ NavigationCommits
    \/ FlowResumes

SpecConcurrent == InitConcurrent /\ [][NextConcurrent]_vars

(***************************************************************************)
(* SpecState: login clicks for native, custom and unknown providers, the   *)
(* provider's redirect back, and handleOAuthRedirect.                      *)
(***************************************************************************)
\* How many times a login button is clicked.
MaxClicks == 2

\* The before-redirect stages of the custom provider in this specification:
\* the redirect step alone.
RedirectOnlyStages ==
    {stage \in Stages :
        /\ Len(stage) = 1
        /\ stage[1].name = Undef
        /\ stage[1].toReturn = <<All("out")>>}

\* A button can be clicked while no click handler is waiting and the page is
\* not busy with handleOAuthRedirect.
ClickPossible ==
    /\ flow.clicks < MaxClicks
    /\ flow.pc \in {"app", "atProvider", "customClick", "done"}

\* handleLoginButtonClick for a name of the providers map, and
\* handleExistingProvidersLoginButtonClick: the checks of the required
\* fields, then handleOAuth1ButtonClick for flowType 1.0 (up to its await)
\* or redirectUser.
LoginClickNative ==
    /\ ClickPossible
    /\ \E name \in ClickNames :
         LET provider == toLowerCase(name)
             failed == FailedCheck(flow.config, provider)
             thrown == throwError(flow.config.handler)
             handled == failed # "nothing" /\ thrown.handled
         IN
         /\ provider \in NativeProviders
         /\ IF failed # "nothing" /\ thrown.thrown
            THEN flow' = [flow EXCEPT
                            !.clicks = @ + 1, !.pc = "app",
                            !.click = [provider |-> provider,
                                       outcome |-> "fatal",
                                       handled |-> handled,
                                       redirected |-> FALSE,
                                       tokenCalled |-> FALSE]]
            ELSE IF flowType(provider) = "1.0"
            THEN flow' = [flow EXCEPT
                            !.clicks = @ + 1, !.pc = "requestToken",
                            !.click = [provider |-> provider,
                                       outcome |-> "requestToken",
                                       handled |-> handled,
                                       redirected |-> FALSE,
                                       tokenCalled |-> TRUE]]
            ELSE flow' = [flow EXCEPT
                            !.clicks = @ + 1, !.pc = "atProvider",
                            !.click = [provider |-> provider,
                                       outcome |-> "redirected",
                                       handled |-> handled,
                                       redirected |-> TRUE,
                                       tokenCalled |-> FALSE]]
    /\ UNCHANGED <<gap, ex, run, bodyParams, localStorage, persisted, page>>

\* handleLoginButtonClick for the custom provider:
\* handleCustomProvidersLoginButtonClick up to its loop.
LoginClickCustom ==
    /\ ClickPossible
    /\ \A i \in Instances : run[i].pc = "idle"
    /\ \E stage \in RedirectOnlyStages, state \in LsStates :
         run' = [run EXCEPT !["client"] =
                   [RunIdle EXCEPT !.pc = "initParams", !.reqUrls = stage,
                                   !.index = 1, !.state = state]]
    /\ flow' = [flow EXCEPT
                  !.clicks = @ + 1, !.pc = "customClick",
                  !.click = [provider |-> Provider, outcome |-> "custom",
                             handled |-> FALSE, redirected |-> FALSE,
                             tokenCalled |-> FALSE]]
    /\ UNCHANGED <<gap, ex, bodyParams, localStorage, persisted, page>>

\* handleLoginButtonClick for a name in neither map: neither branch of the
\* if is taken and the function returns.
LoginClickUnknown ==
    /\ ClickPossible
    /\ \E name \in ClickNames :
         /\ toLowerCase(name) \notin NativeProviders \cup {Provider}
         /\ flow' = [flow EXCEPT
                       !.clicks = @ + 1, !.pc = "app",
                       !.click = [provider |-> toLowerCase(name),
                                  outcome |-> "ignored", handled |-> FALSE,
                                  redirected |-> FALSE,
                                  tokenCalled |-> FALSE]]
    /\ UNCHANGED <<gap, ex, run, bodyParams, localStorage, persisted, page>>

\* handleOAuth1ButtonClick after its awaits: without a token throwError;
\* with one the state entry is written and redirectUser submits the form.
RequestTokenReturns ==
    /\ flow.pc = "requestToken"
    /\ \E token \in BOOLEAN :
         IF token
         THEN /\ localStorage' =
                   [localStorage EXCEPT
                      ![StateKey] = OAuth1StateItem(flow.click.provider,
                                                    flow.config)]
              /\ flow' = [flow EXCEPT !.pc = "atProvider",
                                      !.click.outcome = "redirected",
                                      !.click.redirected = TRUE]
         ELSE /\ flow' = [flow EXCEPT
                            !.pc = "app", !.click.outcome = "fatal",
                            !.click.handled =
                                throwError(flow.config.handler).handled]
              /\ UNCHANGED localStorage
    /\ UNCHANGED <<gap, ex, run, bodyParams, persisted, page>>

\* The provider sends the browser back to the redirect uri; a provider of
\* flowType 2.0 echoes the state parameter it was sent, or leaves it out.
ProviderRedirectsBack ==
    /\ \/ flow.pc = "atProvider"
       \/ flow.pc = "customClick" /\ page.at = "provider"
    /\ \E echo \in BOOLEAN :
         LET echoes == /\ echo
                       /\ flow.click.provider \in NativeProviders
                       /\ flowType(flow.click.provider) = "2.0"
         IN flow' = [flow EXCEPT
                       !.pc = "back",
                       !.echoed = echoes,
                       !.url = IF echoes
                               THEN SentState(flow.click.provider,
                                              flow.config)
                               ELSE NoParam,
                       !.readFrom = "none", !.outcome = "none",
                       !.provider = "", !.userState = Undef,
                       !.exchange = "none", !.result = Undef]
    /\ UNCHANGED <<gap, ex, run, bodyParams, localStorage, persisted, page>>

\* handleOAuthRedirect returns an error object, or throws.
RedirectFails(readFrom, outcome) ==
    flow' = [flow EXCEPT !.pc = "done", !.readFrom = readFrom,
                         !.outcome = outcome]

\* handleOAuthRedirect from the parsed state on: the provider is looked up
\* and the request to the server, or handleAfterRedirectForCustomProviders,
\* is started.
RedirectResolves(readFrom, state) ==
    LET auth == Get(state, "auth") IN
    IF auth.t # "string" THEN RedirectFails(readFrom, "TypeError")
    ELSE IF ~Truthy(auth)
    THEN RedirectFails(readFrom, "Invalid provider found")
    ELSE IF toLowerCase(auth.s) \notin NativeProviders \cup {Provider}
    THEN RedirectFails(readFrom, "Provider not found")
    ELSE flow' = [flow EXCEPT
                    !.pc = IF toLowerCase(auth.s) = Provider
                           THEN "awaitCustom" ELSE "awaitServer",
                    !.readFrom = readFrom, !.outcome = "resolved",
                    !.provider = toLowerCase(auth.s),
                    !.userState = Get(state, "userState")]

\* handleOAuthRedirect up to its await: the state is taken from the url when
\* local storage has no "state" entry, else from that entry; the entry is
\* removed after the try blocks.
HandleOAuthRedirect ==
    /\ flow.pc = "back"
    /\ IF ~localStorage[StateKey].present
       THEN /\ UNCHANGED localStorage
            /\ IF flow.url = NoParam
               THEN RedirectFails("none", "State not found")
               ELSE LET decodedState == decodeURIComponent(UrlGet(flow.url))
                    IN IF JsonParseThrows(decodedState)
                       THEN RedirectFails("url", "Error getting state")
                       ELSE RedirectResolves("url", JsonParse(decodedState))
       ELSE LET text == decodeFromBase64(localStorage[StateKey]) IN
            IF JsonParseThrows(text)
            THEN /\ RedirectFails("storage", "Error getting state")
                 /\ UNCHANGED localStorage
            ELSE /\ RedirectResolves("storage", JsonParse(text))
                 /\ localStorage' = [localStorage EXCEPT ![StateKey] = NoItem]
    /\ UNCHANGED <<gap, ex, run, bodyParams, persisted, page>>

\* What the developer's server endpoint answers to handleRedirect: getUser's
\* success value, getUser's error value, or nothing that parses (kind is
\* how the exchange went).
NativeServerReplies ==
    {[kind |-> "ok", rejected |-> FALSE,
      body |-> Obj("status" :> Str("success")
                   @@ "data" :> Obj("login" :> Str("ann")))],
     [kind |-> "server error", rejected |-> FALSE,
      body |-> Obj("status" :> Str("error")
                   @@ "data" :> Obj("error" :> Str("Error from provider")))],
     [kind |-> "rejected", rejected |-> TRUE, body |-> Undef]}

\* handleRedirect: without parameters an error object; else the fetch of the
\* server, whose parsed answer is wrapped in {status: "success", data} and
\* whose rejection is {status: "error", data}.
handleRedirect(hasParams, reply) ==
    IF ~hasParams
    THEN Obj("status" :> Str("error")
             @@ "data" :> Obj("error" :> Str("Access token not found")))
    ELSE IF reply.rejected
    THEN Obj("status" :> Str("error")
             @@ "data" :> Obj("error" :> Str("Error response from server:")))
    ELSE Obj("status" :> Str("success") @@ "data" :> reply.body)

\* afterRedirect: an error object when the url carried neither a code nor
\* the oauth tokens, else handleRedirect with them.
afterRedirect(hasCode, reply) ==
    IF ~hasCode
    THEN Obj("status" :> Str("error")
             @@ "data" :> Obj("error" :> Str("Code not found")))
    ELSE handleRedirect(TRUE, reply)

\* return {status: "success", data: {state: userState, response}}
RedirectResult(userState, response) ==
    Obj("status" :> Str("success")
        @@ "data" :> Obj("state" :> userState @@ "response" :> response))

\* afterRedirect answers (with the server's reply or an error object), and
\* handleOAuthRedirect returns {status: "success", data: {state, response}}.
AfterRedirectAnswers ==
    /\ flow.pc = "awaitServer"
    /\ \E hasCode \in BOOLEAN, reply \in NativeServerReplies :
          flow' = [flow EXCEPT
                     !.pc = "done", !.outcome = "returned",
                     !.exchange = IF hasCode THEN reply.kind ELSE "no code",
                     !.result = RedirectResult(flow.userState,
                                               afterRedirect(hasCode, reply))]
    /\ UNCHANGED <<gap, ex, run, bodyParams, localStorage, persisted, page>>

\* handleAfterRedirectForCustomProviders is over, and handleOAuthRedirect
\* returns or throws with it.
CustomResumeOver ==
    /\ flow.pc = "awaitCustom"
    /\ page.resumes >= 1
    /\ run["client"].pc \in {"returned", "failed"}
    /\ flow' = [flow EXCEPT
                  !.pc = "done",
                  !.outcome = IF run["client"].pc = "returned"
                              THEN "returned" ELSE "thrown",
                  !.exchange = IF run["client"].pc = "returned"
                               THEN "ok" ELSE "thrown",
                  !.result = IF run["client"].pc = "returned"
                             THEN RedirectResult(flow.userState,
                                                 run["client"].returned)
                             ELSE Undef]
    /\ UNCHANGED <<gap, ex, run, bodyParams, localStorage, persisted, page>>

\* handleAfterRedirectForCustomProviders runs when handleOAuthRedirect has
\* called it and not yet got its result.  Both entries are in local storage
\* then: the custom provider is only resolved after StepRedirect wrote them.
InCustomResume == flow.pc = "awaitCustom" /\ page.resumes = 0

InitState ==
    /\ gap = GapIdle
    /\ ex = [i \in Instances |-> ExecIdle]
    /\ run = [i \in Instances |-> RunIdle]
    /\ bodyParams = NoBody
    /\ localStorage = EmptyStorage
    /\ persisted = NothingPersisted
    /\ page = PageStart
    /\ \E config \in Configs : flow = [FlowIdle EXCEPT !.config = config]

NextState ==
    \/ LoginClickNative
    \/ LoginClickCustom
    \/ LoginClickUnknown
    \/ RequestTokenReturns
    \/ StepRedirect
    \/ ProviderRedirectsBack
    \/ HandleOAuthRedirect
    \/ AfterRedirectAnswers
    \/ InCustomResume /\ ResumeRead
    \/ ExecSend("client")
    \/ ServerResponds("client")
    \/ ExecDelay("client")
    \/ ExecExhausted("client")
    \/ ResumeComplete
    \/ ResumeThrown
    \/ CustomResumeOver

SpecState == InitState /\ [][NextState]_vars

(***************************************************************************)
(* Claims about the Request Executor (SpecExec).                           *)
(***************************************************************************)
Failed(o) == o.kind = "abort" \/ o.status \notin 200..299

AllFailed(log) == \A n \in 1..Len(log) : Failed(log[n])

\* C1: with a retry predicate that always returns true and every attempt
\* failing, waitAndRetryRequest called with maxRetries = M >= 1 never throws,
\* never makes more than M attempts, and when it ends it has made exactly M
\* attempts and returns {error: "Max Retries Reached"}.
C1_ExhaustedAfterMaxAttempts ==
    LET e == ex["client"] IN
    (e.maxRetries >= 1 /\ e.policy = "always" /\ AllFailed(e.log)) =>
        /\ e.pc # "thrown"
        /\ e.attempts <= e.maxRetries
        /\ e.pc = "returned" =>
              /\ e.attempts = e.maxRetries
              /\ e.result = MaxRetriesReached

\* C1 witness: three attempts, each answered with HTTP 500, then the return.
C1_Witness ==
    LET e == ex["client"] IN
    /\ e.maxRetries = 3 /\ e.policy = "always" /\ e.pc = "returned"
    /\ Len(e.log) = 3
    /\ \A n \in 1..3 : e.log[n].kind = "response" /\ e.log[n].status = 500

\* C2: when the retry predicate returns false for a failed attempt, the call
\* ends there with the error thrown after the error handler was given it:
\* no payload is returned, and neither the on-retry hook nor a backoff delay
\* follows that attempt; with a predicate that always returns false exactly
\* one attempt is made, and no hook call or delay happens at all.
C2_FatalWithoutRetry ==
    LET e == ex["client"] IN
    (e.log # <<>> /\ Failed(e.log[Len(e.log)])
       /\ ~retryOn(e.policy, e.lastRequestStatusCode)) =>
        /\ e.pc = "thrown"
        /\ e.result = Undef
        /\ e.errorHandlerCalls >= 1
        /\ e.attempts = Len(e.log)
        /\ e.onRetryCalls = e.attempts - 1
        /\ e.delaysAwaited = e.attempts - 1
        /\ e.policy = "never" =>
              e.attempts = 1 /\ e.onRetryCalls = 0 /\ e.delaysAwaited = 0

\* C2 witness: a never-retry call whose single attempt met HTTP 500.
C2_Witness ==
    LET e == ex["client"] IN
    /\ e.policy = "never" /\ e.pc = "thrown" /\ e.maxRetries = 3
    /\ Len(e.log) = 1 /\ e.log[1].status = 500

(***************************************************************************)
(* Claims about the Value Resolver (SpecParams).                           *)
(***************************************************************************)
\* What a reference is documented to mean without an override map: the walk
\* of the segments after the first two inside the entry's named half.
DocumentedRef(value, previousFetchData) ==
    Walk(Get(Get(previousFetchData, value[1]), value[2]),
         SubSeq(value, 3, Len(value)))

\* A reference the documentation makes resolvable to a string: at least two
\* segments, an existing entry, "request" or "response", a non-empty string
\* at the end of the walk.
GoodRef(spec, previousFetchData) ==
    /\ spec.kind = "array"
    /\ Len(spec.path) >= 2
    /\ spec.path[1] \in DOMAIN previousFetchData.o
    /\ spec.path[2] \in {"request", "response"}
    /\ LET w == DocumentedRef(spec.path, previousFetchData) IN
       ~w.thrown /\ w.node.t = "string" /\ w.node.s # ""

\* C3: called without an override map, getAllParams resolves each reference
\* [stepName, "request" | "response", seg...] to the value found by walking
\* seg... inside that half of the ledger entry.
C3_ReferenceResolvesInsideHalf ==
    (/\ gap.pc = "done"
     /\ gap.specificParser = Undef
     /\ \A n \in 1..Len(gap.params) :
           \/ GoodRef(gap.params[n][2], gap.previousFetchData)
           \/ gap.params[n][2] \in SimpleSpecs) =>
        /\ gap.outcome = "ok"
        /\ \A n \in 1..Len(gap.params) :
              gap.params[n][2].kind = "array" =>
                Get(gap.value, gap.params[n][1])
                  = DocumentedRef(gap.params[n][2].path,
                                  gap.previousFetchData).node

\* C4: a reference whose first segment names a step that is not in the
\* ledger ends in the configured error handler: the resolution fails through
\* throwError, never with the key left unresolved or the handler bypassed.
C4_MissingStepGoesToHandler ==
    (/\ gap.pc = "done"
     /\ gap.specificParser = Undef
     /\ gap.params[1][2].kind = "array"
     /\ Len(gap.params[1][2].path) >= 1
     /\ gap.params[1][2].path[1] \notin DOMAIN gap.previousFetchData.o) =>
        gap.outcome = "handled"

(***************************************************************************)
(* Claims about the pipeline (Spec).                                       *)
(***************************************************************************)
\* The runner of i is in its stage: the browser before its first resume, the
\* server once getCustomProviderUserInfo entered its loop.
InStage(i) ==
    /\ run[i].reqUrls # <<>>
    /\ run[i].index >= 1
    /\ i = "client" => page.resumes = 0

\* Step 1 of the running stage completed with the response {token: "T"} and
\* its record is in the ledger under "step1".
Step1GaveToken(i) ==
    /\ InStage(i)
    /\ run[i].index >= 2
    /\ Get(Get(run[i].previousFetchData, "step1"), "response")
         = Obj("token" :> Str("T"))

\* C5: when step 1 completed with {token: "T"} and the step being resolved
\* declares the header ["step1", "response", "token"], the step's request is
\* issued and carries the header value "T".
C5_LaterStepCarriesToken ==
    [][\A i \in Instances :
          (/\ run[i].pc = "initParams"
           /\ Step1GaveToken(i)
           /\ Details(run[i]).headers = TokenHeader
           /\ run'[i] # run[i])
          => /\ run'[i].pc \in {"awaitRequest", "redirected"}
             /\ Get(Get(Get(run'[i].currentFetchData, "request"), "headers"),
                    "Authorization") = Str("T")]_vars

\* C6: while the after-redirect stage runs, the ledger its steps are handed
\* holds every Fetch Record the browser sent in the request body.
C6_CarriedLedgerVisible ==
    (run["server"].pc \in {"initParams", "awaitRequest"}
     /\ bodyParams.t = "object")
    => LET carried == Get(bodyParams, "previousFetchData") IN
       \A name \in DOMAIN carried.o :
          Get(run["server"].previousFetchData, name) = carried.o[name]

\* The names of a stage's steps are pairwise distinct.
DistinctNames(stage) ==
    \A j, k \in 1..Len(stage) :
       j # k => StepName(stage[j]) # StepName(stage[k])

\* The names of the first n steps of a stage.
NamesUpTo(stage, n) == {StepName(stage[k]) : k \in 1..n}

\* The ledger holds exactly n entries, under the names of the first n steps.
OneEntryPerStep(ledger, stage, n) ==
    /\ Cardinality(DOMAIN ledger.o) = n
    /\ DOMAIN ledger.o = NamesUpTo(stage, n)

\* After index - 1 completed steps the runner's ledger has one entry per
\* step, and after the redirect step the persisted ledger has one entry for
\* every step of the stage.
EntriesCountSteps ==
    /\ \A i \in Instances :
          (InStage(i) /\ run[i].pc # "failed")
          => OneEntryPerStep(run[i].previousFetchData, run[i].reqUrls,
                             run[i].index - 1)
    /\ run["client"].pc = "redirected"
       => OneEntryPerStep(persisted.previousFetchData, run["client"].reqUrls,
                          Len(run["client"].reqUrls))

\* C7 as stated: after N steps the ledger holds exactly N entries, whatever
\* the names of the steps.
C7_OneEntryPerStep == EntriesCountSteps

\* C7: when the names of the stage's steps (explicit name, else url key) are
\* pairwise distinct, the ledger holds exactly N entries after N steps, one
\* under the name of each step.
C7_OneEntryPerStepDistinctNames ==
    (\A i \in Instances : DistinctNames(run[i].reqUrls)) => EntriesCountSteps

C7_Witness ==
    /\ run["server"].pc = "returned"
    /\ Len(run["server"].reqUrls) = 3
    /\ DistinctNames(run["server"].reqUrls)
    /\ run["server"].reqUrls[1].name = Str("first")
    /\ Cardinality(DOMAIN run["server"].previousFetchData.o) = 3

\* The resume has read both entries back and merged them.
ReadBack == run["client"].pc = "awaitServer"

C9_EntriesConsumedOnce ==
    /\ (/\ page.resumes >= 1
        /\ run["client"].pc \in {"returned", "failed"}
        /\ run["client"].read # {})
       => \A key \in StorageKeys : ~localStorage[key].present
    /\ page.ledgerReads <= 1

\* The record the ledger holds for step k of the stage is step k's own.
RecordOfStep(ledger, stage, k) ==
    LET record == Get(ledger, StepName(stage[k])) IN
    /\ record.t = "object"
    /\ Get(Get(record, "request"), "url") = Str(stage[k].url)
    /\ "response" \in DOMAIN record.o

\* When resolution for step index is about to start, the executor is at
\* rest and the ledger holds the records of the steps before it and nothing
\* of a later step.
EarlierStepsAppended ==
    \A i \in Instances :
       (InStage(i) /\ run[i].pc = "initParams")
       => /\ ex[i].pc = "idle"
          /\ \A k \in 1..(run[i].index - 1) :
                RecordOfStep(run[i].previousFetchData, run[i].reqUrls, k)
          /\ \A name \in DOMAIN run[i].previousFetchData.o :
                \A k \in run[i].index..Len(run[i].reqUrls) :
                   Get(Get(run[i].previousFetchData.o[name], "request"),
                       "url") # Str(run[i].reqUrls[k].url)

C11_TimeoutIsRetried ==
    \A i \in Instances :
       (/\ ex[i].policy = "default"
        /\ ex[i].pc = "thrown"
        /\ ex[i].log # <<>>
        /\ ex[i].log[Len(ex[i].log)].kind = "abort")
       => ex[i].retries >= ex[i].maxRetries

C13_LastStepIsRedirectOnly ==
    LET r == run["client"]
        n == Len(r.reqUrls)
    IN
    InStage("client")
    => /\ r.requests <= n - 1
       /\ r.pc = "awaitRequest" => r.index < n
       /\ ex["client"].pc # "idle" => r.pc = "awaitRequest"
       /\ r.pc = "redirected"
          => /\ r.requests = n - 1
             /\ r.index = n
             /\ page.form.appended
             /\ page.form.action = r.reqUrls[n].url

C13_Witness ==
    /\ InStage("client")
    /\ run["client"].pc = "redirected"
    /\ Len(run["client"].reqUrls) = 3
    /\ run["client"].requests = 2
    /\ page.form.action = StepUrl(3)

\* What the entry under a key of local storage decodes and parses to.
StoredUnder(key) == JsonParse(decodeFromBase64(localStorage[key]))

\* C14: once the redirect form is in the document, local storage holds the
\* ledger with the record of the redirect step and the accumulator under
\* their keys; the form is submitted exactly when the test flag is not set.
C14_PersistedBeforeSubmit ==
    /\ page.form.submitted => page.form.appended
    /\ (page.resumes = 0 /\ page.form.appended)
       => LET r == run["client"]
              last == Details(r)
          IN
          /\ \A key \in StorageKeys : localStorage[key].present
          /\ StoredUnder(storeFetchesAs)
               = JsonValue(AppendToLedger(r.previousFetchData,
                                          StepName(last), r.currentFetchData))
          /\ Get(Get(Get(StoredUnder(storeFetchesAs), StepName(last)),
                     "request"), "url") = Str(last.url)
          /\ StoredUnder(storeToReturnAs) = JsonValue(r.toReturnObject)
          /\ page.form.submitted = ~last.test

C14_Witness ==
    /\ page.resumes = 0
    /\ page.form.appended
    /\ ~page.form.submitted
    /\ Details(run["client"]).test
    /\ \A key \in StorageKeys : localStorage[key].present

\* C18: the Params List handed to the resolvers of a step is the configured
\* paramsList, with no entry added and no value replaced.
C18_ParamsListAsConfigured ==
    \A i \in Instances : run[i].givenParams \in {Undef, ParamsList}

(***************************************************************************)
(* Claims about login clicks and the state of a redirect (SpecState).      *)
(***************************************************************************)
\* The last click was for a name in neither map.
UnknownClicked ==
    /\ flow.click.outcome # "none"
    /\ flow.click.provider \notin NativeProviders \cup {Provider}

\* C19: a login click for a provider name that is in neither the providers
\* map nor the customProviders map is a fatal configuration error that
\* reaches the global error handler; it is never silently ignored.
C19_UnknownProviderIsFatal ==
    UnknownClicked =>
        /\ flow.click.outcome = "fatal"
        /\ flow.config.handler # "none" => flow.click.handled

\* The last click was for a native provider whose configuration misses a
\* required field.
MissingFieldClicked ==
    /\ flow.click.outcome # "none"
    /\ flow.click.provider \in NativeProviders
    /\ FailedCheck(flow.config, flow.click.provider) # "nothing"

\* C20: a click on a native provider whose clientId, clientSecret,
\* redirectUri or (except for salesforce) scope is missing never redirects
\* and never calls for a request token, also when the global error handler
\* merely logs; the error is passed to the global error handler.
C20_MissingFieldNeverRedirects ==
    MissingFieldClicked =>
        /\ flow.click.outcome = "fatal"
        /\ ~flow.click.redirected
        /\ ~flow.click.tokenCalled
        /\ flow.pc = "app"
        /\ flow.config.handler # "none" => flow.click.handled

\* The provider of flowType 1.0 was clicked with a missing field and a
\* handler that merely logs.
C20_Witness ==
    /\ MissingFieldClicked
    /\ flow.config.handler = "logs"
    /\ flow.click.handled
    /\ flow.click.provider = "twitter"

\* handleOAuthRedirect has run for the latest return from a provider.
RedirectHandled == flow.pc \in {"awaitServer", "awaitCustom", "done"}

\* C15: when the redirect url carries a state parameter, handleOAuthRedirect
\* takes the provider and the user state from the url; a "state" entry left
\* in local storage by an earlier unfinished flow does not select the
\* provider of the later flow.
C15_UrlStateBeforeStorage ==
    RedirectHandled /\ flow.echoed =>
        /\ flow.readFrom = "url"
        /\ flow.provider = flow.click.provider

\* C16: on every return path of handleOAuthRedirect that read the "state"
\* entry of local storage, a failed parse included, the entry is absent
\* afterwards.
C16_StateEntryDeletedAfterRead ==
    RedirectHandled /\ flow.readFrom = "storage" =>
        ~localStorage[StateKey].present

\* C17: for a native provider of flowType 2.0 that echoes the state
\* parameter, the provider resolved by handleOAuthRedirect is the provider
\* clicked and the state it returns is the state configured for it.
C17_EchoedStateRoundTrips ==
    RedirectHandled /\ flow.echoed =>
        /\ flow.outcome \in {"resolved", "returned"}
        /\ flow.provider = flow.click.provider
        /\ flow.userState = flow.config.state

\* The same round trip for the returns where local storage held no "state"
\* entry.
EchoedStateRoundTripsFromUrl ==
    RedirectHandled /\ flow.echoed /\ flow.readFrom = "url" =>
        /\ flow.outcome \in {"resolved", "returned"}
        /\ flow.provider = flow.click.provider
        /\ flow.userState = flow.config.state

\* A state configured for the provider came back from the url.
EchoedStateCameBack ==
    /\ flow.pc = "done"
    /\ flow.echoed
    /\ flow.readFrom = "url"
    /\ flow.outcome = "returned"
    /\ flow.userState = Str("u1")

(***************************************************************************)
(* Claims about the on-retry hook and the backoff delay (SpecExec).        *)
(***************************************************************************)
\* C25: the on-retry hook is invoked and a backoff delay awaited only after
\* a failure that is followed by another attempt: a delay is awaited only
\* while attempts remain, and when the call is over the hook was invoked
\* and a delay awaited once per re-attempt.
C25_HookOncePerReattempt ==
    LET e == ex["client"] IN
    /\ e.pc = "waiting" => e.retries < e.maxRetries
    /\ (e.pc \in {"returned", "thrown"} /\ e.attempts >= 1) =>
          /\ e.onRetryCalls = e.attempts - 1
          /\ e.delaysAwaited = e.attempts - 1

(***************************************************************************)
(* Claims about the toReturn projection (SpecProject).                     *)
(***************************************************************************)
\* response.s1. ... .sn as JavaScript evaluates it, left to right; the
\* member access on a string, undefined or null value is not defined.
RECURSIVE Member(_, _)
Member(response, path) ==
    IF path = <<>> THEN response
    ELSE Get(Member(response, SubSeq(path, 1, Len(path) - 1)),
             path[Len(path)])

\* Every member access of response.s1. ... .sn is made on an object.
RECURSIVE MemberDefined(_, _)
MemberDefined(response, path) ==
    \/ path = <<>>
    \/ LET front == SubSeq(path, 1, Len(path) - 1) IN
       /\ MemberDefined(response, front)
       /\ Member(response, front).t = "object"

\* What an entry of toReturn is to store under its key.
Projected(entry, response) ==
    IF entry.all THEN response ELSE Member(response, entry.path)

\* C23: storeValuesToReturn stores, under each configured key of toReturn,
\* response.s1. ... .sn for a path [s1..sn] and the entire response for
\* "all", and stores nothing else.
C23_ProjectionFollowsPaths ==
    LET m == gap.returnAfterResponse
        r == gap.providerResponse
        defined == \A n \in 1..Len(m) :
                      m[n].all \/ MemberDefined(r, m[n].path)
    IN
    gap.pc = "done" =>
        /\ gap.outcome = "ok" <=> defined
        /\ defined =>
              /\ gap.value.t = "object"
              /\ DOMAIN gap.value.o = {m[n].key : n \in 1..Len(m)}
              /\ \A n \in 1..Len(m) :
                    Get(gap.value, m[n].key) = Projected(m[n], r)

\* The two examples: the response {a: {b: "x"}} with {out: ["a", "b"]} has
\* given {out: "x"}; this is the first, with "all" under a second key.
C23_Witness ==
    /\ gap.pc = "done"
    /\ gap.providerResponse = Obj("a" :> Obj("b" :> Str("x")))
    /\ gap.returnAfterResponse = <<Path("out", <<"a", "b">>), All("id")>>
    /\ gap.value = Obj("out" :> Str("x")
                       @@ "id" :> Obj("a" :> Obj("b" :> Str("x"))))

(***************************************************************************)
(* Claims about validators and the proxy (SpecExec).                       *)
(***************************************************************************)
\* The call returned the response of its latest attempt (not the payload of
\* the exhausted loop).
ReturnedResponse(e) ==
    /\ e.pc = "returned"
    /\ e.log # <<>>
    /\ ~Failed(e.log[Len(e.log)])
    /\ e.retries < e.maxRetries

\* C29: waitAndRetryRequest returns a parsed response only if every
\* validator of the step returned true for that attempt; the validators are
\* invoked in declared order, none after the first that returns false, and
\* a false verdict makes the attempt a failure that the retry predicate
\* decides on.
C29_ValidatorsGuardTheReturn ==
    LET e == ex["client"]
        rejected == \E k \in 1..Len(e.invoked) : ~e.verdicts[e.invoked[k]]
    IN
    /\ \A k \in 1..Len(e.invoked) : e.invoked[k] = k
    /\ \A k \in 1..(Len(e.invoked) - 1) : e.verdicts[e.invoked[k]]
    /\ ReturnedResponse(e) =>
          /\ Len(e.invoked) = e.validators
          /\ \A n \in 1..e.validators : e.verdicts[n]
    /\ rejected =>
          /\ ~ReturnedResponse(e)
          /\ e.retries = Len(e.log)
          /\ e.pc = "thrown" <=> ~retryOn(e.policy, e.lastRequestStatusCode)

\* The first of two validators returned false: the second was not invoked
\* and the retry predicate let the call go on.
C29_Witness ==
    LET e == ex["client"] IN
    /\ e.validators = 2
    /\ e.verdicts = <<FALSE, TRUE>>
    /\ e.invoked = <<1>>
    /\ e.pc = "waiting"

\* C30: through a proxy, a reply whose status is not "success" is never
\* returned as the step's response, and a reply with status "success"
\* yields exactly its data as the step's response.
C30_ProxyReplyUnwrapped ==
    LET e == ex["client"]
        reply == e.log[Len(e.log)].body
    IN
    (e.proxy /\ ReturnedResponse(e)) =>
        /\ Get(reply, "status") = Str("success")
        /\ e.result = Get(reply, "data")

\* The same for the replies that are objects.
ProxyObjectReplyUnwrapped ==
    LET e == ex["client"]
        reply == e.log[Len(e.log)].body
    IN
    (e.proxy /\ ReturnedResponse(e) /\ reply.t = "object") =>
        /\ Get(reply, "status") = Str("success")
        /\ e.result = Get(reply, "data")

(***************************************************************************)
(* Claims about error handlers and hooks (SpecHooks).                      *)
(***************************************************************************)
\* The chain of handlers for a failure on one side of a step: the step's
\* response.onError (response side only), its request.onError, the
\* provider's observability.onError, the global error handler.
NearestHandler(side, details, observability) ==
    IF side = "response" /\ details.handlers.response THEN "response.onError"
    ELSE IF details.handlers.request THEN "request.onError"
    ELSE IF observability THEN "observability.onError"
    ELSE "globalErrorHandler"

\* Every handler a failed step passed its failure to is the nearest one.
HandlersCalledAreNearest ==
    \A i \in Instances :
       LET r == run[i] IN
       (r.pc = "failed" /\ r.side \in {"request", "response"}) =>
           \A k \in 1..Len(r.handlerCalls) :
              r.handlerCalls[k] =
                  NearestHandler(r.side, Details(r), r.observability)

\* C26: a failure of a step is passed to the nearest configured handler and
\* to no other: response.onError, else request.onError, else
\* observability.onError, else the global error handler for a failure on the
\* response side, the same chain from request.onError on for a failure on
\* the request side.
C26_FailureGoesToNearestHandler ==
    /\ HandlersCalledAreNearest
    /\ \A i \in Instances :
          (run[i].pc = "failed" /\ run[i].side \in {"request", "response"})
             => run[i].handlerCalls # <<>>

\* A failure on each side reached the nearest handler.
NearestHandlerReached ==
    /\ run["client"].pc = "failed"
    /\ run["client"].side = "response"
    /\ Details(run["client"]).handlers = [request |-> TRUE, response |-> FALSE]
    /\ run["client"].handlerCalls = <<"request.onError", "request.onError">>

IsStepEvent(event) ==
    event \in {"onRequestStart", "request", "onRequestEnd", "project",
               "beforeRedirect", "append"}

\* The runner has just completed a step: its record is the current one.
StepJustCompleted(r) ==
    /\ r.pc \in {"initParams", "returned"}
    /\ r.events # <<>>
    /\ r.events[Len(r.events)] = "append"

\* C27: for a step that goes through the Request Executor the events occur
\* in the order onRequestStart, the HTTP request (once per attempt),
\* onRequestEnd, projection into the Result Accumulator, the step's
\* beforeRedirect hook, append to the Ledger; and the hook is given a Ledger
\* that does not yet hold this step's record.
C27_StepEventsInOrder ==
    \A i \in Instances :
       LET r == run[i]
           six == SelectSeq(r.events, IsStepEvent)
           m == Len(six)
           name == StepName(r.reqUrls[r.index - 1])
       IN
       StepJustCompleted(r) =>
           /\ m >= 6
           /\ SubSeq(six, m - 3, m) =
                 <<"onRequestEnd", "project", "beforeRedirect", "append">>
           /\ \A k \in 1..(m - 4) :
                 six[k] = IF k % 2 = 1 THEN "onRequestStart" ELSE "request"
           /\ Get(r.hookLedger, name) # r.currentFetchData
           /\ r.previousFetchData = Put(r.hookLedger, name, r.currentFetchData)

\* The second step of the server's stage was completed at its second
\* attempt, after a step of the same name.
C27_Witness ==
    LET r == run["server"] IN
    /\ StepJustCompleted(r)
    /\ r.index = 3
    /\ StepName(r.reqUrls[1]) = StepName(r.reqUrls[2])
    /\ r.events = <<"onRequestStart", "request", "failed",
                    "onRequestStart", "request", "validated",
                    "onRequestEnd", "project", "beforeRedirect", "append">>

\* C28: onRequestEnd is invoked only for a step whose response was received
\* and passed all of the step's validators, never for a step whose request
\* ended in a fatal failure or by exhausting its retries.
C28_RequestEndOnlyAfterValidResponse ==
    \A i \in Instances :
       \A k \in 1..Len(run[i].events) :
          run[i].events[k] = "onRequestEnd" =>
              k > 1 /\ run[i].events[k - 1] = "validated"

\* onRequestEnd is not invoked for a step whose request ended in a fatal
\* failure.
NoRequestEndAfterFatalFailure ==
    \A i \in Instances :
       (run[i].pc = "failed" /\ run[i].events # <<>>
          /\ run[i].events[Len(run[i].events)] = "failed")
       => \A k \in 1..Len(run[i].events) : run[i].events[k] # "onRequestEnd"


\* The requests getUser has sent to the profile endpoint so far.
ProfileRequests ==
    {k \in DOMAIN gap.requests : gap.requests[k].to = "profile"}

TokenRequests == {k \in DOMAIN gap.requests : gap.requests[k].to = "token"}

InNativeCall == "requests" \in DOMAIN gap

\* C21: in getUser for a native provider of flowType 2.0 other than google
\* the profile request is sent only after the token exchange has returned
\* and its bearer token is an access token that exchange gave; for google
\* no token exchange is sent and the bearer token is the token the redirect
\* carried.
C21_ProfileAfterTokenExchange ==
    InNativeCall =>
        \A k \in ProfileRequests :
            LET bearer == Get(gap.requests[k].headers, "Authorization") IN
            IF gap.provider = "google"
            THEN /\ TokenRequests = {}
                 /\ bearer = Str("Bearer " \o gap.code.s)
            ELSE /\ \E j \in TokenRequests : j < k
                 /\ gap.tokenReply.t = "object"
                 /\ Get(gap.tokenReply, "access_token").t = "string"
                 /\ bearer = Str("Bearer "
                                 \o Get(gap.tokenReply, "access_token").s)

\* The part of C21 that holds: the order of the two requests, google's
\* direct use of the redirect's token, and the bearer being whatever the
\* token response has under access_token.
ProfileFollowsTokenExchange ==
    InNativeCall =>
        \A k \in ProfileRequests :
            LET bearer == Get(gap.requests[k].headers, "Authorization") IN
            IF gap.provider = "google"
            THEN /\ TokenRequests = {}
                 /\ bearer = Str("Bearer " \o gap.code.s)
            ELSE /\ \E j \in TokenRequests : j < k
                 /\ gap.tokenReply # Undef
                 /\ bearer = Str("Bearer " \o TemplateString(
                                    Get(gap.tokenReply, "access_token")))

\* A profile request was sent with the token of a token exchange.
ProfileSentAfterExchange ==
    /\ InNativeCall
    /\ gap.provider # "google"
    /\ ProfileRequests # {}
    /\ Get(gap.tokenReply, "access_token") = Str("t1")

\* C22: the profile request of a native provider carries every header
\* configured under the provider's extraHeaderParams.profileUrl, next to
\* the bearer Authorization header.
C22_ProfileRequestCarriesExtraHeaders ==
    InNativeCall =>
        \A k \in ProfileRequests :
            LET headers == gap.requests[k].headers
                configured == Get(gap.configProvider.extraHeaderParams,
                                  "profileUrl")
            IN /\ "Authorization" \in DOMAIN headers.o
               /\ \A h \in DOMAIN configured.o :
                     Get(headers, h) = configured.o[h]

\* What the profile request does carry: the bearer Authorization header and
\* the headers under extraUrlHeaders.profileUrl.
ProfileRequestCarriesUrlHeaders ==
    InNativeCall =>
        \A k \in ProfileRequests :
            LET headers == gap.requests[k].headers
                read == Get(gap.configProvider.extraUrlHeaders, "profileUrl")
            IN /\ "Authorization" \in DOMAIN headers.o
               /\ \A h \in DOMAIN read.o : Get(headers, h) = read.o[h]


\* C24: two login flows started in the same page do not interfere: the
\* ledger and the accumulator found in local storage when a flow resumes
\* are the ones this same flow persisted.
C24_ResumeFindsOwnEntries ==
    page.at = "resumed" =>
        /\ page.found.previousFetchData =
               JsonValue(persisted[page.resumed].previousFetchData)
        /\ page.found.toReturnObject =
               JsonValue(persisted[page.resumed].toReturnObject)

\* What does hold: the entries found at resume are those of the flow that
\* wrote each key last.
ResumeFindsSomeFlowsEntries ==
    page.at = "resumed" =>
        /\ \E f \in ConcurrentFlows :
              page.found.previousFetchData =
                  JsonValue(persisted[f].previousFetchData)
        /\ \E f \in ConcurrentFlows :
              page.found.toReturnObject =
                  JsonValue(persisted[f].toReturnObject)

\* A flow resumed and found its own entries although the other flow had
\* persisted too.
ResumedAmongTwoWriters ==
    /\ page.at = "resumed"
    /\ \A f \in ConcurrentFlows : persisted[f].toReturnObject # Undef
    /\ page.found.previousFetchData =
           JsonValue(persisted[page.resumed].previousFetchData)


\* The call of runtime i returned the body an attempt through useProxy
\* brought, and behind it the provider had answered with a status st.
ProxiedReturn(e, st) ==
    /\ e.proxy
    /\ e.pc = "returned"
    /\ e.log # <<>>
    /\ e.result # MaxRetriesReached
    /\ e.log[Len(e.log)].made
    /\ e.log[Len(e.log)].behind = st

\* C31: a step routed through useProxy never completes with the body of a
\* response the provider gave with a status outside 200..299.
C31_ProxiedNon2xxIsFailure ==
    \A i \in Instances :
        \A st \in {p.status : p \in ProviderBehindProxy} :
            ProxiedReturn(ex[i], st) => st \in 200..299

\* What holds: when useProxy could not reach the provider or could not parse
\* its body, the proxied attempt is a failure.
ProxiedRejectionIsFailure ==
    \A i \in Instances :
        \A p \in ProviderBehindProxy :
            (p.status = 0 \/ ~p.json) => ~ProxiedReturn(ex[i], p.status)


\* What the key at position n of gap.params resolved to.
ResolvedValue(n) ==
    ResolveOne(gap.params[n][2], gap.previousFetchData,
               gap.specificParser).node

ParamsResolved == gap.pc = "done" /\ gap.outcome = "ok"

\* C32: the map getAllParams returns holds no structured value: a key whose
\* resolved value is an object (or null) is absent, every other key is there
\* with its resolved value.
C32_NoStructuredValueReturned ==
    ("params" \in DOMAIN gap /\ ParamsResolved) =>
        /\ \A key \in DOMAIN gap.value.o : ~TypeofObject(gap.value.o[key])
        /\ \A n \in 1..Len(gap.params) :
              IF TypeofObject(ResolvedValue(n))
              THEN gap.params[n][1] \notin DOMAIN gap.value.o
              ELSE /\ gap.params[n][1] \in DOMAIN gap.value.o
                   /\ gap.value.o[gap.params[n][1]] = ResolvedValue(n)

\* A call resolved one key to an object, which was dropped, and another key
\* to a text, which was kept.
C32_Witness ==
    /\ "params" \in DOMAIN gap
    /\ ParamsResolved
    /\ \E n \in 1..Len(gap.params) :
          /\ ResolvedValue(n).t = "object"
          /\ gap.params[n][1] \notin DOMAIN gap.value.o
    /\ \E n \in 1..Len(gap.params) :
          /\ ResolvedValue(n).t = "string"
          /\ gap.params[n][1] \in DOMAIN gap.value.o


\* The characters pE escapes beyond encodeURIComponent.
ReservedChars == {"!", "*", "'", "(", ")"}

\* What the claim has one character of a value become.
EscapeOfChar(c, pe) ==
    CASE c = " " -> <<"%", "2", "0">>
      [] c = "&" -> <<"%", "2", "6">>
      [] pe /\ c = "!" -> <<"%", "2", "1">>
      [] pe /\ c = "*" -> <<"%", "2", "A">>
      [] pe /\ c = "'" -> <<"%", "2", "7">>
      [] pe /\ c = "(" -> <<"%", "2", "8">>
      [] pe /\ c = ")" -> <<"%", "2", "9">>
      [] OTHER -> <<c>>

RECURSIVE EscapedText(_, _)
EscapedText(str, pe) ==
    IF str = <<>> THEN <<>>
    ELSE EscapeOfChar(Head(str), pe) \o EscapedText(Tail(str), pe)

RECURSIVE ExpectedQuery(_, _)
ExpectedQuery(urlParams, pe) ==
    IF urlParams = <<>> THEN <<>>
    ELSE Head(urlParams)[1] \o <<"=">>
         \o EscapedText(Head(urlParams)[2], pe)
         \o (IF Len(urlParams) > 1 THEN <<"&">> ELSE <<>>)
         \o ExpectedQuery(Tail(urlParams), pe)

EncodeDone == "finalUrl" \in DOMAIN gap /\ gap.pc = "done"

\* C33: pE(s) holds none of ! * ' ( ), each one being replaced by its escape
\* on top of the escaping of encodeURIComponent, and convertToUrlParams
\* encodes the values with pE exactly when the step's percentEncode flag is
\* true, with encodeURIComponent otherwise.
C33_PercentEncodingLaw ==
    EncodeDone =>
        /\ \A n \in 1..Len(gap.urlParams) :
              LET encoded == pE(gap.urlParams[n][2]) IN
              /\ \A k \in 1..Len(encoded) : encoded[k] \notin ReservedChars
              /\ encoded = EscapedText(gap.urlParams[n][2], TRUE)
        /\ gap.finalUrl =
              <<"?">> \o ExpectedQuery(gap.urlParams,
                                       gap.percentEncode = "true")

\* A value with a parenthesis and an exclamation mark was encoded with the
\* flag set.
C33_Witness ==
    /\ EncodeDone
    /\ gap.percentEncode = "true"
    /\ gap.urlParams[1][2] = <<"(", "!">>
    /\ gap.finalUrl = <<"?", "k", "=", "%", "2", "8", "%", "2", "1">>


SignerDone == "passed" \in DOMAIN gap /\ gap.pc = "done"

\* C34: getSignature, baseString, parameterString and mergeObjects leave the
\* parameter object passed to them as it was.
C34_SignerLeavesArgumentsUnchanged ==
    SignerDone => gap.passed = gap.oauth_data

\* What holds: getSignature leaves the caller's oauth_data as it was, and so
\* does every function for a url without query.
SignerUnchangedThroughGetSignature ==
    (SignerDone /\ (gap.fn = "getSignature" \/ gap.query = <<>>)) =>
        gap.passed = gap.oauth_data

\* getSignature was called with a url that has query parameters.
GetSignatureWithQuery ==
    SignerDone /\ gap.fn = "getSignature" /\ gap.query # <<>>


\* The loop body of runner i has just run on the payload of exhausted
\* retries: it is the response saved in currentFetchData.
ExhaustedStep(i) ==
    /\ run[i].events # <<>>
    /\ Get(run[i].currentFetchData, "response") = MaxRetriesReached

\* What an entry of toReturn extracts from the payload when its path has at
\* most one segment.
FromPayload(entry) ==
    IF entry.all \/ entry.path = <<>> THEN MaxRetriesReached
    ELSE Get(MaxRetriesReached, entry.path[1])

\* The step with the exhausted retries was recorded and projected, and the
\* loop went on to what follows it.
ExhaustedStepRecorded(i) ==
    /\ run[i].pc \in {"initParams", "returned"}
    /\ run[i].index >= 2
    /\ LET details == run[i].reqUrls[run[i].index - 1] IN
       /\ Get(Get(run[i].previousFetchData, StepName(details)),
              "response") = MaxRetriesReached
       /\ \A n \in 1..Len(details.toReturn) :
             /\ details.toReturn[n].key \in DOMAIN run[i].toReturnObject.o
             /\ run[i].toReturnObject.o[details.toReturn[n].key]
                   = FromPayload(details.toReturn[n])

\* C35: when the retries of a step are exhausted the pipeline goes on: the
\* payload {error: "Max Retries Reached"} is the step's response in the
\* ledger, it is projected, and the loop continues with the later steps.
C35_ExhaustionDoesNotAbort ==
    \A i \in Instances : ExhaustedStep(i) => ExhaustedStepRecorded(i)

\* The toReturn map of the stage can be projected from the payload: every
\* entry is "all" or a path of at most one segment.
PayloadProjects(i) ==
    \A n \in 1..Len(run[i].reqUrls[1].toReturn) :
        \/ run[i].reqUrls[1].toReturn[n].all
        \/ Len(run[i].reqUrls[1].toReturn[n].path) <= 1

\* C35 as amended: the pipeline goes on after exhausted retries when the
\* projection of the payload does not fail.
C35_ExhaustionDoesNotAbortWhenProjectable ==
    \A i \in Instances :
        (ExhaustedStep(i) /\ PayloadProjects(i)) => ExhaustedStepRecorded(i)

\* The first step of a longer stage exhausted its retries and the loop is at
\* the second step.
C35_Witness ==
    \E i \in Instances :
        /\ ExhaustedStep(i)
        /\ PayloadProjects(i)
        /\ run[i].pc = "initParams"
        /\ run[i].index = 2
        /\ Len(run[i].reqUrls) >= 2


\* Runner i waits for the Request Executor in a step whose retry policy has
\* a configured maxRetries.
InConfiguredStep(i) ==
    /\ run[i].pc = "awaitRequest"
    /\ ex[i].target = "provider"
    /\ Details(run[i]).retriesGiven

\* C36: for a configured retries.maxRetries of m >= 0 the executor makes at
\* most m attempts for the step; with maxRetries 0 no request is sent.
C36_AttemptsWithinConfiguredBound ==
    \A i \in Instances :
        InConfiguredStep(i) => ex[i].attempts <= Details(run[i]).maxRetries

\* What holds: a configured maxRetries of 1 or more bounds the attempts.
AttemptsWithinPositiveBound ==
    \A i \in Instances :
        (InConfiguredStep(i) /\ Details(run[i]).maxRetries >= 1) =>
            ex[i].attempts <= Details(run[i]).maxRetries

\* A step configured with maxRetries 1 used its one attempt.
PositiveBoundReached ==
    \E i \in Instances :
        /\ InConfiguredStep(i)
        /\ Details(run[i]).maxRetries = 1
        /\ ex[i].attempts = 1
        /\ ex[i].pc = "returned"
        /\ ex[i].result = MaxRetriesReached


\* handleOAuthRedirect recovered the state, identified the provider and its
\* after-redirect exchange is over.
ExchangeOver == flow.pc = "done" /\ flow.exchange # "none"

\* C37: once the state is recovered and the provider identified,
\* handleOAuthRedirect returns status "success" whatever the after-redirect
\* exchange did, and a failed exchange shows as data.response.status =
\* "error".
C37_RedirectReturnsSuccess ==
    ExchangeOver =>
        /\ flow.outcome = "returned"
        /\ Get(flow.result, "status") = Str("success")
        /\ flow.exchange # "ok" =>
              Get(Get(Get(flow.result, "data"), "response"), "status")
                  = Str("error")

\* What holds: for a native provider the top-level status is "success", and
\* a missing code or an unreachable server shows as data.response.status =
\* "error".
NativeRedirectReturnsSuccess ==
    (ExchangeOver /\ flow.provider \in NativeProviders) =>
        /\ flow.outcome = "returned"
        /\ Get(flow.result, "status") = Str("success")
        /\ flow.exchange \in {"no code", "rejected"} =>
              Get(Get(Get(flow.result, "data"), "response"), "status")
                  = Str("error")

\* A native redirect came back without a code and was answered.
NativeRedirectWithoutCode ==
    ExchangeOver /\ flow.provider \in NativeProviders
    /\ flow.exchange = "no code"


\* The three entry points have run for a name that is in both maps.
InBothMaps ==
    /\ "started" \in DOMAIN gap
    /\ gap.provider \in gap.config.providers
    /\ gap.provider \in gap.config.customProviders

\* C38: for a provider name configured in both maps, the kind of flow that
\* handleLoginButtonClick started is the kind handleOAuthRedirect resumes and
\* the kind getUser executes.
C38_EntryPointsAgree ==
    InBothMaps =>
        /\ gap.resumed \in {"native", "custom"} => gap.resumed = gap.started
        /\ gap.executed \in {"native", "custom"} => gap.executed = gap.started

\* What holds: the button and the server agree, both looking the name up in
\* the providers map first.
ClickAndGetUserAgree ==
    (InBothMaps /\ gap.executed \in {"native", "custom"}) =>
        gap.executed = gap.started

\* getUser has executed a flow for a name in both maps.
ExecutedForNameInBothMaps ==
    InBothMaps /\ gap.executed \in {"native", "custom"}


\* getCustomProviderUserInfo ran all the steps of its stage and returned.
UserInfoReturned ==
    /\ run["server"].pc = "returned"
    /\ run["server"].index > Len(run["server"].reqUrls)
    /\ run["server"].reqUrls # <<>>

\* The value a toReturn entry names in a response.
RECURSIVE ValueAt(_, _)
ValueAt(node, path) ==
    IF path = <<>> THEN node
    ELSE ValueAt(Get(node, Head(path)), Tail(path))

ExtractedBy(entry, response) ==
    IF entry.all THEN response ELSE ValueAt(response, entry.path)

\* The steps of the stage that extract key.
Producers(reqUrls, key) ==
    {k \in 1..Len(reqUrls) :
        \E n \in 1..Len(reqUrls[k].toReturn) : reqUrls[k].toReturn[n].key = key}

LatestProducer(reqUrls, key) ==
    CHOOSE k \in Producers(reqUrls, key) :
        \A j \in Producers(reqUrls, key) : j <= k

ExtractedKeys(reqUrls) ==
    UNION {{reqUrls[k].toReturn[n].key : n \in 1..Len(reqUrls[k].toReturn)} :
             k \in 1..Len(reqUrls)}

\* The value the latest producer of key extracted from its response, as the
\* ledger of the result records that response.
LatestValue(r, key) ==
    LET k == LatestProducer(r.reqUrls, key)
        details == r.reqUrls[k]
        n == CHOOSE m \in 1..Len(details.toReturn) :
                 /\ details.toReturn[m].key = key
                 /\ \A l \in 1..Len(details.toReturn) :
                       details.toReturn[l].key = key => l <= m
        response == Get(Get(r.previousFetchData, StepName(details)),
                        "response")
    IN ExtractedBy(details.toReturn[n], response)

\* C39: on success the result of getCustomProviderUserInfo has key "name"
\* equal to the provider name, whatever a step extracted under "name", and
\* every other extracted key has the value of the latest step that produced
\* it; the name is the provider's in what handleAfterRedirectForCustomProviders
\* returns, too.
C39_ResultNamesProvider ==
    /\ UserInfoReturned =>
          LET r == run["server"]
              result == Get(Get(r.returned, "data"), "toReturnObject")
          IN /\ Get(r.returned, "status") = Str("success")
             /\ Get(result, "name") = Str(Provider)
             /\ \A key \in ExtractedKeys(r.reqUrls) \ {"name"} :
                   /\ key \in DOMAIN result.o
                   /\ result.o[key] = LatestValue(r, key)
    /\ run["client"].pc = "returned" /\ page.resumes >= 1 =>
          Get(Get(run["client"].returned, "data"), "name") = Str(Provider)

\* A stage whose first step extracted out = "T" and whose last step extracted
\* undefined for it has returned; and a stage whose step extracted a name
\* has returned.
C39_Witness ==
    /\ UserInfoReturned
    /\ Len(run["server"].reqUrls) >= 2
    /\ run["server"].reqUrls[1].toReturn = <<Path("out", <<"token">>)>>
    /\ LET first == Get(run["server"].previousFetchData,
                        StepName(run["server"].reqUrls[1]))
       IN Get(Get(first, "response"), "token") = Str("T")
    /\ Get(Get(Get(run["server"].returned, "data"), "toReturnObject"), "out")
          = Undef

\* A step extracted "u7" under the key "name" and the stage has returned.
ExtractedNameOverwritten ==
    /\ UserInfoReturned
    /\ run["server"].reqUrls[1].toReturn = <<Path("name", <<"user", "id">>)>>
    /\ Get(run["server"].toReturnObject, "name") = Str("u7")


\* helperFunction has replied to the body under both configurations.
HelperReplied == "replies" \in DOMAIN gap /\ gap.pc = "replied"

\* C40: helperFunction invokes only functions of the registry, an unknown
\* functionName fails with "Function not found" and invokes nothing, and two
\* configurations that differ only in the secrets give the same reply.
C40_HelperRevealsNoSecret ==
    HelperReplied =>
        /\ \A n \in 1..2 :
              /\ gap.replies[n].invoked \in RegistryFunctions \cup {"none"}
              /\ gap.body.functionName \notin RegistryFunctions =>
                    /\ gap.replies[n].outcome = "thrown"
                    /\ gap.replies[n].error = "Function not found"
                    /\ gap.replies[n].invoked = "none"
        /\ gap.replies[1] = gap.replies[2]

\* What holds: a registry function other than getConfig is the function
\* invoked and replies the same under both configurations, and a name that
\* no object knows fails with "Function not found" and invokes nothing.
HelperRepliesAlikeButForGetConfig ==
    HelperReplied =>
        /\ gap.body.functionName \in RegistryFunctions \ {"getConfig"} =>
              /\ gap.replies[1] = gap.replies[2]
              /\ gap.replies[1].invoked = gap.body.functionName
        /\ gap.body.functionName
              \notin RegistryFunctions \cup ObjectPrototypeFunctions =>
              \A n \in 1..2 :
                  /\ gap.replies[n].outcome = "thrown"
                  /\ gap.replies[n].error = "Function not found"
                  /\ gap.replies[n].invoked = "none"

\* pE was called through helperFunction under two different secrets.
HelperCalledPEUnderTwoSecrets ==
    /\ HelperReplied
    /\ gap.body.functionName = "pE"
    /\ gap.secrets[1] # gap.secrets[2]
    /\ gap.replies[1].text = <<"%", "2", "1">>

\* getConfig was called through helperFunction under two different secrets
\* and the replies carry them.
GetConfigRepliesCarrySecrets ==
    /\ HelperReplied
    /\ gap.body.functionName = "getConfig"
    /\ \A n \in 1..2 :
          Get(Get(Get(gap.replies[n].data, "providers"), "github"),
              "clientSecret") = Str(gap.secrets[n])
    /\ gap.replies[1] # gap.replies[2]

====
